---- MODULE Spec2Model ----
(***************************************************************************)
(* Verification model of mcp-launch: the `up` supervisor (port planning,   *)
(* stack start-up, signal handling and the cleanup sweep), the overlay     *)
(* filter used by the OpenAPI merger, and the MCP stdio inspector.         *)
(*                                                                         *)
(* The specifications of the module:                                       *)
(*   SpecUp      - cmdUp: plan ports, start stacks, wait, clean up         *)
(*   SpecMerge   - Overlay.allowed and the path filter of mergeOpenAPI     *)
(*   SpecInspect - inspectStdio / readJSON / readLine against a server     *)
(*   SpecInspectLive - the same against a server that never stops, fair    *)
(*   SpecProxy   - frontProxy: /openapi.json requests against SetOpenAPI   *)
(*   SpecTunnel  - startQuickTunnel: the readers, urlCh and the select     *)
(*   SpecTui     - the preflight of cmdUp and the TUI it runs              *)
(*   SpecOverlay - translateOverlay and cloneConfigApplyOverlay            *)
(*   SpecDoc     - the passes of mergeOpenAPI over bounded documents       *)
(*   SpecEdit    - the tool editor, the scroll state and the UI tags       *)
(* Each specification leaves the variables of the others untouched.        *)
(***************************************************************************)
EXTENDS Integers, Sequences, FiniteSets, TLC

VARIABLES
    \* ---- cmdUp ----
    pc,            \* position of cmdUp
    cur,           \* index of the instance the loops are working on
    nCfg,          \* number of --config arguments
    portBase,      \* --port
    mcpoBase,      \* --mcpo-port
    tunnelMode,    \* --tunnel
    busy,          \* local ports some other process has bound (isFree is false)
    takenFront,    \* takenFront map of cmdUp
    takenMcpo,     \* takenMcpo map of cmdUp
    instances,     \* the in-memory []Instance
    stFile,        \* Instances as persisted in .mcp-launch/state.json
    procAlive,     \* PIDs of child processes that are alive
    tunnelOf,      \* instance index -> PID of the tunnel process spawned for it (0: none)
    namedStarted,  \* namedStarted flag of cmdUp
    ready,         \* instance index -> did waitURL see the gateway answer
    runs,          \* sequence of instance indexes appended to runs
    proxy,         \* instance index -> state of its Front Proxy
    cause,         \* what triggered the cleanup sweep
    \* ---- merger ----
    ov,            \* nested overlay handed to mergeOpenAPI (<<>>: nil, <<o>>: o)
    docs,          \* server -> raw paths of the per-server document served by the gateway
    mpc,           \* position of mergeOpenAPI
    todo,          \* sorted server names still to merge
    pathsOut,      \* merged path -> the server that contributed the path item
    query,         \* last (inst, server, tool) handed to Overlay.allowed
    answer,        \* what Overlay.allowed returned for query
    \* ---- Front Proxy, quick tunnel, preflight UI ----
    fp,            \* one frontProxy: spec, mu, its requests and SetOpenAPI calls
    qt,            \* one startQuickTunnel call: its readers, urlCh and select
    ui,            \* the preflight of cmdUp and the TUI program it runs
    \* ---- overlay translation and config clone, merge passes ----
    tr,            \* one translateOverlay / cloneConfigApplyOverlay call
    dc,            \* one pass of mergeOpenAPI over a per-server document
    \* ---- tool editor, scroll state and description tags of the UI ----
    ed,            \* one editor session, scroll session or ComputeTags call
    \* ---- inspector ----
    ins            \* the state of one inspectStdio call and of its child:
                   \*   pc         position of inspectStdio
                   \*   now        seconds since the caller created its context
                   \*   env        MCP_INIT_TIMEOUT_SEC as read by the slow fallback
                   \*   deadline   deadline of the context the current read runs under
                   \*   rmode      position inside readJSON
                   \*   stdout     lines written by the child and not yet read
                   \*   leaked     reader goroutines left behind by timed-out reads
                   \*   sent       messages written to the child's stdin, in order
                   \*   pending    requests the server has not answered yet
                   \*   seen       ids of the responses the client accepted
                   \*   nextID, attempt, cursorStr, rErr   locals of inspectStdio
                   \*   childUp    cmd.Start succeeded
                   \*   killed     cmd.Process.Kill() has been called
                   \*   eof        the child has closed its stdout
                   \*   result     what inspectStdio returned
                   \*   tools      pages whose tools were appended
                   \*   waits      the timeouts waitOnce was called with
                   \*   fastEnd    how the first waitOnce ended
                   \*   initRespAt when the server wrote its initialize response
                   \*   srvNoise   non-response lines the server has written
                   \*   srvErrs    the server has answered with a JSON-RPC error
                   \*   pages      pages on which the server offered a nextCursor
                   \*   lost       how awaited responses were consumed undelivered
                   \*   replies    per answered tools/list request, in order: did the
                   \*              server answer it with a JSON-RPC error

upVars == <<pc, cur, nCfg, portBase, mcpoBase, tunnelMode, busy, takenFront,
            takenMcpo, instances, stFile, procAlive, tunnelOf, namedStarted,
            ready, runs, proxy, cause>>
mergeVars == <<ov, docs, mpc, todo, pathsOut, query, answer>>
inspectVars == <<ins>>
proxyVars == <<fp>>
tunnelVars == <<qt>>
tuiVars == <<ui>>
overlayVars == <<tr>>
docVars == <<dc>>
editVars == <<ed>>
vars == <<upVars, mergeVars, inspectVars, proxyVars, tunnelVars, tuiVars,
          overlayVars, docVars, editVars>>

\* What the actions of one specification leave alone.
notUpVars == <<mergeVars, inspectVars, proxyVars, tunnelVars, tuiVars,
    overlayVars, docVars, editVars>>
notMergeVars == <<upVars, inspectVars, proxyVars, tunnelVars, tuiVars,
    overlayVars, docVars, editVars>>
notInspectVars == <<upVars, mergeVars, proxyVars, tunnelVars, tuiVars,
    overlayVars, docVars, editVars>>
notProxyVars == <<upVars, mergeVars, inspectVars, tunnelVars, tuiVars,
    overlayVars, docVars, editVars>>
notTunnelVars == <<upVars, mergeVars, inspectVars, proxyVars, tuiVars,
    overlayVars, docVars, editVars>>
notTuiVars == <<upVars, mergeVars, inspectVars, proxyVars, tunnelVars,
    overlayVars, docVars, editVars>>
notOverlayVars == <<upVars, mergeVars, inspectVars, proxyVars, tunnelVars,
    tuiVars, docVars, editVars>>
notDocVars == <<upVars, mergeVars, inspectVars, proxyVars, tunnelVars,
    tuiVars, overlayVars, editVars>>
notEditVars == <<upVars, mergeVars, inspectVars, proxyVars, tunnelVars,
    tuiVars, overlayVars, docVars>>

(***************************************************************************)
(* Bounds of the model.                                                    *)
(***************************************************************************)
MaxConfigs == 2     \* at most this many --config arguments
MaxNoise == 1       \* at most this many non-response lines from a server
MaxPages == 1       \* a server offers a nextCursor on at most this many pages
MaxRequests == 3    \* GET /openapi.json requests a Front Proxy receives
MaxInstalls == 2    \* calls of SetOpenAPI on a Front Proxy
MaxLines == 3       \* lines cloudflared writes to its two streams
MaxServers == 1     \* servers in the config of an instance
MaxKeyLen == 3      \* characters in a composite key of an overlay
MaxPaths == 2       \* paths in a per-server document
MaxDepth == 2       \* nesting of the schema of a response
MaxExtraRunes == 1  \* graphemes of a description that have a second rune
MaxKeys == 5        \* keys pressed in one editor session
MaxScrolls == 4     \* scroll calls in one session
MaxTextLen == 4     \* runes of a raw or modified description

(***************************************************************************)
(* Program constants.                                                      *)
(***************************************************************************)
defaultFrontPort == 8000
defaultMcpoPort == 8800
MaxProbes == 4096
OuterDeadline == 15     \* preflight: context.WithTimeout(..., 15*time.Second)
FastWindow == 6         \* waitOnce(6 * time.Second)
DefaultSlowSec == 20    \* slowSec := 20
ListWindow == 8         \* context.WithTimeout(ctx, 8*time.Second)
FirstListID == 3        \* nextID := 3

(***************************************************************************)
(* cmdUp: inputs.                                                          *)
(***************************************************************************)
FrontBases == {defaultFrontPort, defaultFrontPort + 1}
McpoBases == {defaultMcpoPort, defaultFrontPort + 1}
BusyPorts == {defaultFrontPort, defaultFrontPort + 1, defaultMcpoPort}
TunnelModes == {"quick", "named", "none"}

Instance(front, mcpoP) ==
    [FrontPort |-> front, McpoPort |-> mcpoP, CloudflaredPID |-> 0,
     McpoPID |-> 0, PublicURL |-> ""]

\* PIDs the operating system hands out: the gateway of instance i, the MCP
\* servers the gateway spawns into its own process group, and the tunnel.
McpoPidOf(i) == 100 + i
McpChildOf(i) == 200 + i
TunnelPidOf(i) == 300 + i

\* Process group of a child: mcpo is started with Setpgid and its MCP servers
\* inherit the group; cloudflared stays in the supervisor's group (0).
GroupOf(pid) ==
    IF pid >= 100 /\ pid < 200 THEN pid
    ELSE IF pid >= 200 /\ pid < 300 THEN pid - 100
    ELSE 0

isFree(port) == port \notin busy

RECURSIVE probePort(_, _, _, _)
probePort(p, tries, start, taken) ==
    IF tries >= MaxProbes THEN start
    ELSE IF p \notin taken /\ isFree(p) THEN p
    ELSE probePort(p + 1, tries + 1, start, taken)

reservePort(start, taken) == probePort(start, 0, start, taken)

\* saveStateMulti: st.Instances = instances; saveState(st)
saveStateMulti(insts) == insts

\* The "save PID" block of startQuickTunnel: reload state.json, set the PID on
\* the first record with this front port, write state.json back.
savePidByFrontPort(file, frontPort, pid) ==
    LET hits == {k \in 1..Len(file) : file[k].FrontPort = frontPort}
    IN IF hits = {} THEN file
       ELSE LET k == CHOOSE m \in hits : \A o \in hits : m <= o
            IN [file EXCEPT ![k].CloudflaredPID = pid]

killPID(alive, pid) == IF pid <= 0 THEN alive ELSE alive \ {pid}

killProcessGroup(alive, pid) ==
    IF pid <= 0 THEN alive ELSE {q \in alive : GroupOf(q) # pid}

\* Next position once the body of the start loop is done for instance cur.
NextStack == IF cur < nCfg THEN "start" ELSE "report"

MergeIdle ==
    /\ ov = <<>> /\ docs = <<>> /\ mpc = "idle" /\ todo = <<>>
    /\ pathsOut = <<>> /\ query = <<>> /\ answer = TRUE

InspectIdle == ins = <<>>

ProxyIdle == fp = <<>>

TunnelIdle == qt = <<>>

TuiIdle == ui = <<>>

OverlayIdle == tr = <<>>

DocIdle == dc = <<>>

EditIdle == ed = <<>>

UpIdle ==
    /\ pc = "idle" /\ cur = 0 /\ nCfg = 0 /\ portBase = 0 /\ mcpoBase = 0
    /\ tunnelMode = "none" /\ busy = {} /\ takenFront = {} /\ takenMcpo = {}
    /\ instances = <<>> /\ stFile = <<>> /\ procAlive = {}
    /\ tunnelOf = <<>> /\ namedStarted = FALSE /\ ready = <<>>
    /\ runs = <<>> /\ proxy = <<>> /\ cause = ""

InitUp ==
    /\ pc = "plan" /\ cur = 1
    /\ nCfg \in 1..MaxConfigs
    /\ portBase \in FrontBases
    /\ mcpoBase \in McpoBases
    /\ tunnelMode \in TunnelModes
    /\ busy \in SUBSET BusyPorts
    /\ takenFront = {} /\ takenMcpo = {}
    /\ instances = <<>> /\ stFile = <<>>
    /\ procAlive = {}
    /\ tunnelOf = [i \in 1..nCfg |-> 0]
    /\ namedStarted = FALSE
    /\ ready = [i \in 1..nCfg |-> FALSE]
    /\ runs = <<>>
    /\ proxy = [i \in 1..nCfg |-> "none"]
    /\ cause = ""
    /\ MergeIdle /\ InspectIdle /\ ProxyIdle /\ TunnelIdle /\ TuiIdle
    /\ OverlayIdle /\ DocIdle /\ EditIdle

\* One iteration of the "Build instance plans" loop.
PlanInstance ==
    /\ pc = "plan"
    /\ LET front == reservePort(portBase + (cur - 1), takenFront)
           mcpoP == reservePort(mcpoBase + (cur - 1), takenMcpo)
       IN /\ takenFront' = takenFront \cup {front}
          /\ takenMcpo' = takenMcpo \cup {mcpoP}
          /\ instances' = Append(instances, Instance(front, mcpoP))
    /\ IF cur < nCfg THEN /\ cur' = cur + 1 /\ pc' = pc
                     ELSE /\ cur' = 1 /\ pc' = "start"
    /\ UNCHANGED <<nCfg, portBase, mcpoBase, tunnelMode, busy, stFile,
                   procAlive, tunnelOf, namedStarted, ready, runs, proxy, cause>>
    /\ UNCHANGED notUpVars

\* mcpoCmd.Start(): on error the instance is skipped, otherwise the PID is
\* recorded and saved.
StartGateway ==
    /\ pc = "start"
    /\ \E ok \in BOOLEAN :
         IF ok
         THEN /\ instances' = [instances EXCEPT ![cur].McpoPID = McpoPidOf(cur)]
              /\ stFile' = saveStateMulti(instances')
              /\ procAlive' = procAlive \cup {McpoPidOf(cur), McpChildOf(cur)}
              /\ pc' = "ready"
              /\ cur' = cur
         ELSE /\ pc' = NextStack
              /\ cur' = IF cur < nCfg THEN cur + 1 ELSE cur
              /\ UNCHANGED <<instances, stFile, procAlive>>
    /\ UNCHANGED <<nCfg, portBase, mcpoBase, tunnelMode, busy, takenFront,
                   takenMcpo, tunnelOf, namedStarted, ready, runs, proxy, cause>>
    /\ UNCHANGED notUpVars

\* waitURL returns nothing: whether the gateway answered or the 60 s ran out,
\* cmdUp goes on to record the server names and to start the Front Proxy.
WaitReady ==
    /\ pc = "ready"
    /\ \E r \in BOOLEAN : ready' = [ready EXCEPT ![cur] = r]
    /\ stFile' = saveStateMulti(instances)
    /\ proxy' = [proxy EXCEPT ![cur] = "nospec"]
    /\ pc' = "tunnel"
    /\ UNCHANGED <<cur, nCfg, portBase, mcpoBase, tunnelMode, busy, takenFront,
                   takenMcpo, instances, procAlive, tunnelOf, namedStarted,
                   runs, cause>>
    /\ UNCHANGED notUpVars

\* case "none" of the tunnel switch.
TunnelNone ==
    /\ pc = "tunnel" /\ tunnelMode = "none"
    /\ pc' = "merge"
    /\ UNCHANGED <<cur, nCfg, portBase, mcpoBase, tunnelMode, busy, takenFront,
                   takenMcpo, instances, stFile, procAlive, tunnelOf,
                   namedStarted, ready, runs, proxy, cause>>
    /\ UNCHANGED notUpVars

\* startQuickTunnel up to the select: spawn cloudflared, save its PID.
QuickSpawn ==
    /\ pc = "tunnel" /\ tunnelMode = "quick"
    /\ \E ok \in BOOLEAN :
         IF ok
         THEN /\ procAlive' = procAlive \cup {TunnelPidOf(cur)}
              /\ tunnelOf' = [tunnelOf EXCEPT ![cur] = TunnelPidOf(cur)]
              /\ stFile' = savePidByFrontPort(stFile, instances[cur].FrontPort,
                                              TunnelPidOf(cur))
              /\ pc' = "quickwait"
         ELSE /\ pc' = "merge"
              /\ UNCHANGED <<procAlive, tunnelOf, stFile>>
    /\ UNCHANGED <<cur, nCfg, portBase, mcpoBase, tunnelMode, busy, takenFront,
                   takenMcpo, instances, namedStarted, ready, runs, proxy, cause>>
    /\ UNCHANGED notUpVars

\* The select of startQuickTunnel and the caller's handling of its result.
QuickUrl ==
    /\ pc = "quickwait"
    /\ \E got \in BOOLEAN :
         IF got
         THEN /\ instances' = [instances EXCEPT ![cur].PublicURL = "quick"]
              /\ stFile' = saveStateMulti(instances')
         ELSE UNCHANGED <<instances, stFile>>
    /\ pc' = "merge"
    /\ UNCHANGED <<cur, nCfg, portBase, mcpoBase, tunnelMode, busy, takenFront,
                   takenMcpo, procAlive, tunnelOf, namedStarted, ready, runs,
                   proxy, cause>>
    /\ UNCHANGED notUpVars

\* Variant of NamedTunnel that starts a tunnel for every named instance.
NamedTunnelEveryInstance ==
    /\ pc = "tunnel" /\ tunnelMode = "named"
    /\ \E ok \in BOOLEAN :
         IF ok
         THEN /\ procAlive' = procAlive \cup {TunnelPidOf(cur)}
              /\ tunnelOf' = [tunnelOf EXCEPT ![cur] = TunnelPidOf(cur)]
              /\ instances' = [instances EXCEPT
                                 ![cur].CloudflaredPID = TunnelPidOf(cur)]
              /\ stFile' = saveStateMulti(instances')
              /\ namedStarted' = TRUE
              /\ pc' = "merge"
         ELSE /\ pc' = "panic"
              /\ UNCHANGED <<instances, stFile, procAlive, tunnelOf,
                             namedStarted>>
    /\ UNCHANGED <<cur, nCfg, portBase, mcpoBase, tunnelMode, busy, takenFront,
                   takenMcpo, ready, runs, proxy, cause>>
    /\ UNCHANGED notUpVars

\* case "named": the first instance starts the tunnel, later ones skip it.
\* startNamedTunnel ignores the error of cmd.Start and reads cmd.Process.Pid,
\* which panics when the process could not be started.
NamedTunnel ==
    /\ pc = "tunnel" /\ tunnelMode = "named"
    /\ IF namedStarted
       THEN /\ pc' = "merge"
            /\ UNCHANGED <<instances, stFile, procAlive, tunnelOf, namedStarted>>
       ELSE \E ok \in BOOLEAN :
              IF ok
              THEN /\ procAlive' = procAlive \cup {TunnelPidOf(cur)}
                   /\ tunnelOf' = [tunnelOf EXCEPT ![cur] = TunnelPidOf(cur)]
                   /\ instances' = [instances EXCEPT
                                      ![cur].CloudflaredPID = TunnelPidOf(cur)]
                   /\ stFile' = saveStateMulti(instances')
                   /\ namedStarted' = TRUE
                   /\ pc' = "merge"
              ELSE /\ pc' = "panic"
                   /\ UNCHANGED <<instances, stFile, procAlive, tunnelOf,
                                  namedStarted>>
    /\ UNCHANGED <<cur, nCfg, portBase, mcpoBase, tunnelMode, busy, takenFront,
                   takenMcpo, ready, runs, proxy, cause>>
    /\ UNCHANGED notUpVars

\* mergeOpenAPI and what follows it in the loop body: on success the
\* diagnostics are saved and the spec is installed; either way the stack is
\* appended to runs.
MergeStack ==
    /\ pc = "merge"
    /\ \E ok \in BOOLEAN :
         IF ok
         THEN /\ stFile' = saveStateMulti(instances)
              /\ proxy' = [proxy EXCEPT ![cur] = "spec"]
         ELSE UNCHANGED <<stFile, proxy>>
    /\ runs' = Append(runs, cur)
    /\ pc' = NextStack
    /\ cur' = IF cur < nCfg THEN cur + 1 ELSE cur
    /\ UNCHANGED <<nCfg, portBase, mcpoBase, tunnelMode, busy, takenFront,
                   takenMcpo, instances, procAlive, tunnelOf, namedStarted,
                   ready, cause>>
    /\ UNCHANGED notUpVars

\* The report: with no stack started cmdUp returns, otherwise it prints the
\* URLs, registers the signal handler and blocks in the select.
Report ==
    /\ pc = "report"
    /\ pc' = IF Len(runs) = 0 THEN "exited" ELSE "waiting"
    /\ UNCHANGED <<cur, nCfg, portBase, mcpoBase, tunnelMode, busy, takenFront,
                   takenMcpo, instances, stFile, procAlive, tunnelOf,
                   namedStarted, ready, runs, proxy, cause>>
    /\ UNCHANGED notUpVars

\* A gateway process exits on its own (its MCP servers stay in the group).
GatewayExit ==
    /\ pc \in {"start", "ready", "tunnel", "quickwait", "merge", "report", "waiting"}
    /\ \E i \in 1..nCfg :
         /\ McpoPidOf(i) \in procAlive
         /\ procAlive' = procAlive \ {McpoPidOf(i)}
    /\ UNCHANGED <<pc, cur, nCfg, portBase, mcpoBase, tunnelMode, busy,
                   takenFront, takenMcpo, instances, stFile, tunnelOf,
                   namedStarted, ready, runs, proxy, cause>>
    /\ UNCHANGED notUpVars

\* The cleanup closure: close the proxies of runs, then for every instance
\* kill the recorded tunnel PID and the recorded gateway process group, zero
\* both PIDs and save the state.
RECURSIVE sweepFrom(_, _, _)
sweepFrom(i, insts, alive) ==
    IF i > Len(insts) THEN alive
    ELSE sweepFrom(i + 1, insts,
                   killProcessGroup(killPID(alive, insts[i].CloudflaredPID),
                                    insts[i].McpoPID))

cleanup ==
    /\ proxy' = [i \in DOMAIN proxy |->
                   IF \E k \in 1..Len(runs) : runs[k] = i THEN "closed" ELSE proxy[i]]
    /\ procAlive' = sweepFrom(1, instances, procAlive)
    /\ instances' = [i \in DOMAIN instances |->
                       [instances[i] EXCEPT !.CloudflaredPID = 0, !.McpoPID = 0]]
    /\ stFile' = saveStateMulti(instances')

\* case <-sigCh of the final select.
SignalCleanup ==
    /\ pc = "waiting"
    /\ cleanup
    /\ cause' = "signal"
    /\ pc' = "exited"
    /\ UNCHANGED <<cur, nCfg, portBase, mcpoBase, tunnelMode, busy, takenFront,
                   takenMcpo, tunnelOf, namedStarted, ready, runs>>
    /\ UNCHANGED notUpVars

\* case name := <-doneCh of the final select.
DoneCleanup ==
    /\ pc = "waiting"
    /\ \E k \in 1..Len(runs) : McpoPidOf(runs[k]) \notin procAlive
    /\ cleanup
    /\ cause' = "mcpo-exit"
    /\ pc' = "exited"
    /\ UNCHANGED <<cur, nCfg, portBase, mcpoBase, tunnelMode, busy, takenFront,
                   takenMcpo, tunnelOf, namedStarted, ready, runs>>
    /\ UNCHANGED notUpVars

\* SIGINT or SIGTERM before signal.Notify has been called: the runtime's
\* default action ends the supervisor at once, no cleanup runs.
SignalBeforeNotify ==
    /\ pc \in {"plan", "start", "ready", "tunnel", "quickwait", "merge", "report"}
    /\ pc' = "terminated"
    /\ cause' = "signal"
    /\ UNCHANGED <<cur, nCfg, portBase, mcpoBase, tunnelMode, busy, takenFront,
                   takenMcpo, instances, stFile, procAlive, tunnelOf,
                   namedStarted, ready, runs, proxy>>
    /\ UNCHANGED notUpVars

NextUp ==
    \/ PlanInstance
    \/ StartGateway
    \/ WaitReady
    \/ TunnelNone
    \/ QuickSpawn
    \/ QuickUrl
    \/ NamedTunnel
    \/ MergeStack
    \/ Report
    \/ GatewayExit
    \/ SignalCleanup
    \/ DoneCleanup
    \/ SignalBeforeNotify

SpecUp == InitUp /\ [][NextUp]_vars

(***************************************************************************)
(* Overlay.allowed and the path loop of mergeOpenAPI.                      *)
(*                                                                         *)
(* A Go map is a function over the keys it holds; a map that may be nil is *)
(* wrapped: <<>> is the nil map and <<f>> the map f.  A path is the        *)
(* sequence of its segments, "/t1/sub" being <<"t1", "sub">>.              *)
(***************************************************************************)
Insts == {"alpha", "beta"}
Servers == {"s1", "s2"}
ServerOrder == <<"s1", "s2">>      \* sort.Strings order of Servers
Tools == {"t1", "t2"}
ToolNames == Tools \cup {""}
RawPaths == {<<>>, <<"t1">>, <<"t2">>, <<"t1", "sub">>}
DocChoices == {{<<"t1">>, <<"t2">>}, {<<>>, <<"t1", "sub">>, <<"t2">>}}

MapsOver(K, V) == UNION {[D -> V] : D \in SUBSET K}

\* map[string]bool over tool names, as the TUI and overrides.json produce them
ToolMaps == MapsOver(Tools, {TRUE}) \cup {[t \in {"t1"} |-> FALSE]}
ServerToolMaps == MapsOver(Servers, {<<m>> : m \in ToolMaps})
ServerFlags == MapsOver(Servers, BOOLEAN)

\* translateOverlay initialises the maps of every instance of the run; the
\* run merged here has the one instance "alpha".
Overlays ==
    {[Disabled |-> <<[i \in {"alpha"} |-> <<d>>]>>,
      Allow |-> <<[i \in {"alpha"} |-> <<a>>]>>,
      Deny |-> <<[i \in {"alpha"} |-> <<y>>]>>] :
        d \in ServerFlags, a \in ServerToolMaps, y \in ServerToolMaps}

\* m[k] of a possibly nil map whose values are maps: nil when k is missing
lookupMap(m, k) == IF Len(m) = 1 /\ k \in DOMAIN m[1] THEN m[1][k] ELSE <<>>
\* m[k] of a possibly nil map[string]bool: false when k is missing
lookupBool(m, k) == IF Len(m) = 1 /\ k \in DOMAIN m[1] THEN m[1][k] ELSE FALSE

\* Variant of allowed that consults the deny-set before the allow-set.
allowedDenyFirst(o, inst, server, tool) ==
    IF o = <<>> THEN TRUE
    ELSE IF /\ o[1].Disabled # <<>>
            /\ lookupMap(o[1].Disabled, inst) # <<>>
            /\ lookupBool(lookupMap(o[1].Disabled, inst), server)
         THEN FALSE
    ELSE IF /\ o[1].Deny # <<>>
            /\ lookupMap(o[1].Deny, inst) # <<>>
            /\ lookupMap(lookupMap(o[1].Deny, inst), server) # <<>>
            /\ lookupBool(lookupMap(lookupMap(o[1].Deny, inst), server), tool)
         THEN FALSE
    ELSE IF /\ o[1].Allow # <<>>
            /\ lookupMap(o[1].Allow, inst) # <<>>
            /\ lookupMap(lookupMap(o[1].Allow, inst), server) # <<>>
         THEN lookupBool(lookupMap(lookupMap(o[1].Allow, inst), server), tool)
    ELSE TRUE

allowed(o, inst, server, tool) ==
    IF o = <<>> THEN TRUE
    ELSE IF /\ o[1].Disabled # <<>>
            /\ lookupMap(o[1].Disabled, inst) # <<>>
            /\ lookupBool(lookupMap(o[1].Disabled, inst), server)
         THEN FALSE
    ELSE IF /\ o[1].Allow # <<>>
            /\ lookupMap(o[1].Allow, inst) # <<>>
            /\ lookupMap(lookupMap(o[1].Allow, inst), server) # <<>>
         THEN lookupBool(lookupMap(lookupMap(o[1].Allow, inst), server), tool)
    ELSE IF /\ o[1].Deny # <<>>
            /\ lookupMap(o[1].Deny, inst) # <<>>
            /\ lookupMap(lookupMap(o[1].Deny, inst), server) # <<>>
            /\ lookupBool(lookupMap(lookupMap(o[1].Deny, inst), server), tool)
         THEN FALSE
    ELSE TRUE

toolNameFromRawPath(p) == IF p = <<>> THEN "" ELSE Head(p)

\* "/" + name + ensureLeadingSlash(rawPath)
mergedPath(name, rawPath) == <<name>> \o rawPath

\* Variant of pathEmitted that filters on the last path segment.
pathEmittedLastSegment(o, inst, name, rawPath) ==
    allowed(o, inst, name, IF rawPath = <<>> THEN "" ELSE rawPath[Len(rawPath)])

\* The `continue` of the path loop: is the path item of rawPath emitted?
pathEmitted(o, inst, name, rawPath) ==
    allowed(o, inst, name, toolNameFromRawPath(rawPath))

\* The names loop of mergeOpenAPI: servers of the config that the overlay
\* does not disable, sorted.
disabledInMerge(o, inst, name) ==
    /\ o # <<>>
    /\ o[1].Disabled # <<>>
    /\ lookupMap(o[1].Disabled, inst) # <<>>
    /\ lookupBool(lookupMap(o[1].Disabled, inst), name)

mergeNames(o, inst) ==
    SelectSeq(ServerOrder, LAMBDA n : ~disabledInMerge(o, inst, n))

MergedInst == "alpha"

InitMerge ==
    /\ ov \in {<<>>} \cup {<<o>> : o \in Overlays}
    /\ docs \in [Servers -> DocChoices]
    /\ mpc = "start"
    /\ todo = <<>>
    /\ pathsOut = <<>>
    /\ query = <<>>
    /\ answer = TRUE
    /\ UpIdle /\ InspectIdle /\ ProxyIdle /\ TunnelIdle /\ TuiIdle
    /\ OverlayIdle /\ DocIdle /\ EditIdle

\* A call of Overlay.allowed on its own.
AskAllowed ==
    /\ mpc = "start"
    /\ \E inst \in Insts, server \in Servers, tool \in ToolNames :
         /\ query' = <<inst, server, tool>>
         /\ answer' = allowed(ov, inst, server, tool)
    /\ mpc' = "asked"
    /\ UNCHANGED <<ov, docs, todo, pathsOut>>
    /\ UNCHANGED notMergeVars

\* mergeOpenAPI up to the server loop.
MergeBegin ==
    /\ mpc = "start"
    /\ todo' = mergeNames(ov, MergedInst)
    /\ mpc' = "servers"
    /\ UNCHANGED <<ov, docs, pathsOut, query, answer>>
    /\ UNCHANGED notMergeVars

\* One iteration of the server loop: fetch the document (any failure fails
\* the merge), then emit every path item the overlay allows.
MergeServer ==
    /\ mpc = "servers" /\ todo # <<>>
    /\ \E ok \in BOOLEAN :
         IF ok
         THEN LET name == Head(todo)
                  emitted == {p \in docs[name] :
                                 pathEmitted(ov, MergedInst, name, p)}
                  keys == {mergedPath(name, p) : p \in emitted}
              IN /\ pathsOut' = [k \in DOMAIN pathsOut \cup keys |->
                                   IF k \in keys THEN name ELSE pathsOut[k]]
                 /\ todo' = Tail(todo)
                 /\ mpc' = mpc
         ELSE /\ mpc' = "failed"
              /\ pathsOut' = <<>>
              /\ todo' = <<>>
    /\ UNCHANGED <<ov, docs, query, answer>>
    /\ UNCHANGED notMergeVars

\* The global cleanups and the return of the merged document.
MergeFinish ==
    /\ mpc = "servers" /\ todo = <<>>
    /\ mpc' = "done"
    /\ UNCHANGED <<ov, docs, todo, pathsOut, query, answer>>
    /\ UNCHANGED notMergeVars

NextMerge ==
    \/ AskAllowed
    \/ MergeBegin
    \/ MergeServer
    \/ MergeFinish

SpecMerge == InitMerge /\ [][NextMerge]_vars

(***************************************************************************)
(* inspectStdio, readJSON and readLine, run against one child process.     *)
(*                                                                         *)
(* A line of the child's stdout is a record: k is what the line is         *)
(*   "resp"  a JSON-RPC response to a request of the client                *)
(*   "stray" another JSON message (id 0), with or without an error member  *)
(*   "text"  text that is not JSON                                         *)
(*   "blank" an empty line                                                 *)
(*   "clen"  text that starts with "Content-Length:" and a positive number *)
(* id is the id member, err says that an error member is present and more  *)
(* that result.nextCursor is non-empty.                                    *)
(***************************************************************************)
EnvChoices == {"", "x", "0", "5"}
NoiseKinds == {"text", "blank", "clen", "stray"}
Shapes == <<"empty-object", "cursor-empty-string", "cursor-null", "no-params">>

Line(k, id, err, more) == [k |-> k, id |-> id, err |-> err, more |-> more]

Min(a, b) == IF a < b THEN a ELSE b

\* strconv.Atoi on the trimmed value of MCP_INIT_TIMEOUT_SEC: <<n, ok>>
atoi(v) == IF v = "0" THEN <<0, TRUE>>
           ELSE IF v = "5" THEN <<5, TRUE>>
           ELSE <<0, FALSE>>

slowSec(v) ==
    IF v # "" /\ atoi(v)[2] /\ atoi(v)[1] > 0 THEN atoi(v)[1] ELSE DefaultSlowSec

\* Variant of withTimeout that ignores the deadline of the parent context.
withTimeoutUncapped(s, d) == s.now + d

\* context.WithTimeout(ctx, d): never later than the deadline of ctx
withTimeout(s, d) == Min(s.now + d, OuterDeadline)

\* Variant of idMatches that takes any id for the awaited one.
idMatchesAny(id, want) == TRUE

\* int(r.ID.(float64)) == want
idMatches(id, want) == id = want

\* Variant of retryable that retries after every error.
retryableAlways(e) == TRUE

\* errors.Is(err, context.DeadlineExceeded) || errors.Is(err, context.Canceled)
retryable(e) == e \in {"deadline exceeded", "canceled"}

\* Variant of Return that leaves the child running when tools/list failed.
ReturnKeepChildOnListError(s, res) ==
    [s EXCEPT !.pc = "done", !.result = res,
              !.killed = (res # "tools/list failed"),
              !.stdout = <<>>, !.pending = <<>>, !.leaked = 0]

\* _ = cmd.Process.Kill(); return Summary{...}, err
\* (what the killed child had written or was asked is gone with it)
Return(s, res) ==
    [s EXCEPT !.pc = "done", !.result = res, !.killed = TRUE,
              !.stdout = <<>>, !.pending = <<>>, !.leaked = 0]

Reading(s) == s.pc \in {"fast", "slow", "listwait"}

\* The id the current read loop is waiting for.
Awaited(s) == IF s.pc = "listwait" THEN s.nextID ELSE 1

IsAwaited(s, l) == l.k = "resp" /\ l.id = Awaited(s)

Lose(s, l, how) ==
    IF IsAwaited(s, l) THEN [s EXCEPT !.lost = @ \cup {how}] ELSE s

\* The first waitOnce returned the error e; env is what os.Getenv returns
\* for MCP_INIT_TIMEOUT_SEC when the slow fallback reads it.
FastFailed(s, e, env) ==
    IF retryable(e)
    THEN [s EXCEPT !.fastEnd = e,
                   !.pc = "slow",
                   !.env = env,
                   !.waits = Append(@, slowSec(env)),
                   !.deadline = withTimeout(s, slowSec(env)),
                   !.rmode = "json"]
    ELSE Return([s EXCEPT !.fastEnd = e], "init read: " \o e)

\* The second waitOnce returned the error e.
SlowFailed(s, e) == Return(s, "init read: " \o e)

\* A read of the current loop failed with the error e.
ReadFailed(s, e, env) ==
    IF s.pc = "fast" THEN FastFailed(s, e, env)
    ELSE IF s.pc = "slow" THEN SlowFailed(s, e)
    ELSE Return(s, "tools/list read: " \o e)

\* waitOnce got the JSON message l from readJSON.
InitLine(s, l, env) ==
    IF idMatches(l.id, 1)
    THEN IF l.err
         THEN ReadFailed(s, "initialize failed", env)
         ELSE [s EXCEPT !.seen = @ \cup {l.id},
                        !.fastEnd = IF s.pc = "fast" THEN "ok" ELSE @,
                        !.pc = "notify"]
    ELSE s

\* The tools/list loop got the JSON message l from readJSON: it is decoded
\* into r, whose Error member stays set once a message carried one.
ListLine(s, l) ==
    LET s1 == [s EXCEPT !.rErr = @ \/ l.err]
    IN IF ~idMatches(l.id, s.nextID) THEN s1
       ELSE LET s2 == [s1 EXCEPT !.seen = @ \cup {l.id}]
            IN IF s2.rErr
               THEN IF ~s.cursorStr /\ s.attempt + 1 < Len(Shapes)
                    THEN [s2 EXCEPT !.attempt = @ + 1, !.pc = "listsend"]
                    ELSE Return(s2, "tools/list failed")
               ELSE IF ~l.more
                    THEN Return([s2 EXCEPT !.tools = @ + 1], "ok")
                    ELSE [s2 EXCEPT !.tools = @ + 1,
                                    !.cursorStr = TRUE,
                                    !.nextID = @ + 1,
                                    !.attempt = 0,
                                    !.pc = "listsend"]

\* readJSON returned the JSON message l to the loop that called it.
Deliver(s, l, env) ==
    LET s1 == [s EXCEPT !.rmode = "json"]
    IN IF s.pc = "listwait" THEN ListLine(s1, l) ELSE InitLine(s1, l, env)

IsJSON(l) == l.k \in {"resp", "stray"}

\* readJSON consumes the line l.  exact says, for the body of a
\* Content-Length frame, whether the announced length is the length of l.
ReadJSONLine(s, l, exact, env) ==
    IF s.rmode = "hdr"
    THEN \* header loop: every line up to a blank one is dropped
         Lose([s EXCEPT !.rmode = IF l.k = "blank" THEN "body" ELSE "hdr"],
              l, "framing")
    ELSE IF s.rmode = "body"
    THEN \* io.ReadFull of the announced length, handed on as the message
         IF exact /\ IsJSON(l) THEN Deliver(s, l, env)
         ELSE Lose([s EXCEPT !.rmode = "json"], l, "framing")
    ELSE IF l.k = "clen" THEN [s EXCEPT !.rmode = "hdr"]
    ELSE IF IsJSON(l) THEN Deliver(s, l, env)
    ELSE s        \* blank line or unknown noise: keep reading

InsStart ==
    [pc |-> "spawn", now |-> 0, env |-> "unread", deadline |-> 0, rmode |-> "json",
     stdout |-> <<>>, leaked |-> 0, sent |-> <<>>, pending |-> <<>>,
     seen |-> {}, nextID |-> 0, attempt |-> 0, cursorStr |-> FALSE,
     rErr |-> FALSE, childUp |-> FALSE, killed |-> FALSE, eof |-> FALSE,
     result |-> "", tools |-> 0, waits |-> <<>>, fastEnd |-> "",
     initRespAt |-> -1, srvNoise |-> 0, srvErrs |-> FALSE, pages |-> 0,
     lost |-> {}, replies |-> <<>>]

InitInspect ==
    /\ ins = InsStart
    /\ UpIdle /\ MergeIdle /\ ProxyIdle /\ TunnelIdle /\ TuiIdle
    /\ OverlayIdle /\ DocIdle /\ EditIdle

Msg(method, id, shape) == [method |-> method, id |-> id, shape |-> shape]

\* cmd.Start(), then the initialize request and the first waitOnce.
Spawn ==
    /\ ins.pc = "spawn"
    /\ \E ok \in BOOLEAN :
         ins' = IF ok
                THEN [ins EXCEPT !.childUp = TRUE,
                                 !.sent = <<Msg("initialize", 1, "")>>,
                                 !.pending = <<Msg("initialize", 1, "")>>,
                                 !.waits = <<FastWindow>>,
                                 !.deadline = withTimeout(ins, FastWindow),
                                 !.pc = "fast"]
                ELSE [ins EXCEPT !.pc = "done", !.result = "start failed"]
    /\ UNCHANGED notInspectVars

\* sendLine(notify) and the set-up of the tools/list loop.
SendNotify ==
    /\ ins.pc = "notify"
    /\ ins' = [ins EXCEPT
                 !.sent = Append(@, Msg("notifications/initialized", -1, "")),
                 !.nextID = FirstListID,
                 !.attempt = 0,
                 !.cursorStr = FALSE,
                 !.pc = "listsend"]
    /\ UNCHANGED notInspectVars

\* One tools/list request: the shape of the attempt, the id nextID.
SendList ==
    /\ ins.pc = "listsend"
    /\ LET m == Msg("tools/list", ins.nextID,
                    IF ins.cursorStr THEN "cursor" ELSE Shapes[ins.attempt + 1])
       IN ins' = [ins EXCEPT !.sent = Append(@, m),
                             !.pending = Append(@, m),
                             !.rErr = FALSE,
                             !.rmode = "json",
                             !.deadline = withTimeout(ins, ListWindow),
                             !.pc = "listwait"]
    /\ UNCHANGED notInspectVars

\* readLine hands the next line of stdout to readJSON.
ReadLine ==
    /\ Reading(ins) /\ ins.stdout # <<>>
    /\ \E exact \in BOOLEAN, env \in EnvChoices :
         ins' = ReadJSONLine([ins EXCEPT !.stdout = Tail(@)],
                             Head(ins.stdout), exact, env)
    /\ UNCHANGED notInspectVars

\* The select of readLine (or of the frame read) sees ctx.Done(): the read
\* returns the context's error and its reader goroutine is left behind.
ReadTimeout ==
    /\ Reading(ins) /\ ins.now >= ins.deadline
    /\ \E env \in EnvChoices :
         ins' = ReadFailed([ins EXCEPT !.leaked = @ + 1], "deadline exceeded", env)
    /\ UNCHANGED notInspectVars

\* The child has closed its stdout and nothing is left to read.
ReadEOF ==
    /\ Reading(ins) /\ ins.stdout = <<>> /\ ins.eof
    /\ \E env \in EnvChoices : ins' = ReadFailed(ins, "EOF", env)
    /\ UNCHANGED notInspectVars

\* A reader goroutine left behind by a timed-out read gets the next line;
\* nobody receives from its channel.
LeakedRead ==
    /\ Reading(ins) /\ ins.leaked > 0 /\ ins.stdout # <<>>
    /\ ins' = Lose([ins EXCEPT !.stdout = Tail(@), !.leaked = @ - 1],
                   Head(ins.stdout), "leak")
    /\ UNCHANGED notInspectVars

\* A second passes while the client is blocked in a read.
Tick ==
    /\ Reading(ins) /\ ins.stdout = <<>> /\ ~ins.eof
    /\ ins.now < ins.deadline
    /\ ins' = [ins EXCEPT !.now = @ + 1]
    /\ UNCHANGED notInspectVars

\* The server writes a line once the client has taken the one before.
ServerRunning ==
    ins.childUp /\ ~ins.eof /\ ins.pc # "done" /\ ins.stdout = <<>>

\* The server answers the oldest request it has not answered.
ServerRespond ==
    /\ ServerRunning /\ ins.pending # <<>>
    /\ LET req == Head(ins.pending)
       IN \E err \in BOOLEAN, more \in BOOLEAN :
            /\ more => (~err /\ req.method = "tools/list" /\ ins.pages < MaxPages)
            /\ ins' = [ins EXCEPT
                 !.stdout = Append(@, Line("resp", req.id, err, more)),
                 !.pending = Tail(@),
                 !.srvErrs = @ \/ err,
                 !.pages = IF more THEN @ + 1 ELSE @,
                 !.replies = IF req.method = "tools/list" THEN Append(@, err) ELSE @,
                 !.initRespAt = IF req.method = "initialize" THEN ins.now ELSE @]
    /\ UNCHANGED notInspectVars

\* The server writes a line that answers no request.
ServerNoise ==
    /\ ServerRunning /\ ins.srvNoise < MaxNoise
    /\ \E k \in NoiseKinds, err \in BOOLEAN :
         /\ err => k = "stray"
         /\ ins' = [ins EXCEPT
              !.stdout = Append(@, Line(k, IF k = "stray" THEN 0 ELSE -1, err, FALSE)),
              !.srvNoise = @ + 1]
    /\ UNCHANGED notInspectVars

\* The server exits.
ServerExit ==
    /\ ServerRunning
    /\ ins' = [ins EXCEPT !.eof = TRUE]
    /\ UNCHANGED notInspectVars

NextInspect ==
    \/ Spawn
    \/ SendNotify
    \/ SendList
    \/ ReadLine
    \/ ReadTimeout
    \/ ReadEOF
    \/ LeakedRead
    \/ Tick
    \/ ServerRespond
    \/ ServerNoise
    \/ ServerExit

SpecInspect == InitInspect /\ [][NextInspect]_vars

(***************************************************************************)
(* inspectStdio against a server that never has to stop.  MaxNoise and     *)
(* MaxPages bound what the server writes within one second, not within the *)
(* session: srvNoise and pages start again at zero whenever a second       *)
(* passes, so a server may write non-matching lines for ever and may offer *)
(* a nextCursor on every page.  The field srv names what the server of the *)
(* session does:                                                           *)
(*   {}                 it writes nothing                                  *)
(*   {"noise"}          it writes lines that answer nothing                *)
(*   {"noise", "exit"}  the same, and it may exit                          *)
(*   {"init", "noise"}  it answers initialize, then writes such lines      *)
(*   {"respond"}        it answers every request, with or without an error *)
(*                      and with or without a nextCursor                   *)
(*                                                                         *)
(* Fairness: the client's own steps are taken when they can be (the Go     *)
(* scheduler runs a runnable goroutine), time passes, and the select of    *)
(* readLine takes <-ctx.Done() once the context has expired.  Nothing is   *)
(* assumed of the server.                                                  *)
(***************************************************************************)
ServerKinds ==
    {{}, {"noise"}, {"noise", "exit"}, {"init", "noise"}, {"respond"}}

InsLive(kind) == [srv |-> kind] @@ InsStart

InitInspectLive ==
    /\ \E kind \in ServerKinds : ins = InsLive(kind)
    /\ UpIdle /\ MergeIdle /\ ProxyIdle /\ TunnelIdle /\ TuiIdle
    /\ OverlayIdle /\ DocIdle /\ EditIdle

\* A second passes while the client is blocked in a read.
Second ==
    /\ Reading(ins) /\ ins.stdout = <<>> /\ ~ins.eof
    /\ ins.now < ins.deadline
    /\ ins' = [ins EXCEPT !.now = @ + 1, !.srvNoise = 0, !.pages = 0]
    /\ UNCHANGED notInspectVars

\* A server that answers does.
LiveRespond ==
    /\ ins.pending # <<>>
    /\ \/ "respond" \in ins.srv
       \/ "init" \in ins.srv /\ Head(ins.pending).method = "initialize"
    /\ ServerRespond

\* A server that writes other lines does.
LiveNoise == "noise" \in ins.srv /\ ServerNoise

\* A server that may exit does.
LiveExit == "exit" \in ins.srv /\ ServerExit

NextInspectLive ==
    \/ Spawn
    \/ SendNotify
    \/ SendList
    \/ ReadLine
    \/ ReadTimeout
    \/ ReadEOF
    \/ LeakedRead
    \/ Second
    \/ LiveRespond
    \/ LiveNoise
    \/ LiveExit

FairInspect ==
    /\ WF_vars(Spawn)
    /\ WF_vars(SendNotify)
    /\ WF_vars(SendList)
    /\ WF_vars(ReadLine \/ LeakedRead)
    /\ WF_vars(ReadTimeout)
    /\ WF_vars(ReadEOF)
    /\ WF_vars(Second)

SpecInspectLive == InitInspectLive /\ [][NextInspectLive]_vars /\ FairInspect

(***************************************************************************)
(* frontProxy: the /openapi.json handler against SetOpenAPI.               *)
(*                                                                         *)
(* The bytes of a spec are a number: 0 is the empty slice the proxy starts *)
(* with, k the document handed to the k-th call of SetOpenAPI              *)
(* (mergeOpenAPI returns a marshalled JSON object, never empty bytes).     *)
(* installed is the spec of the last call of SetOpenAPI that has returned. *)
(***************************************************************************)
StatusServiceUnavailable == 503
StatusOK == 200

Requests == 1..MaxRequests

\* Variant of lockFree that lets a writer in while readers hold the lock.
lockFreeIgnoringReaders(mu) == ~mu.writer

\* sync.RWMutex: Lock needs no writer and no reader, RLock no writer.
lockFree(mu) == ~mu.writer /\ mu.readers = 0

rlockFree(mu) == ~mu.writer

NoResponse == [status |-> 0, ctype |-> "", body |-> 0]

FpStart ==
    [spec |-> 0,
     mu |-> [readers |-> 0, writer |-> FALSE],
     req |-> [r \in Requests |->
                [pc |-> "new", empty |-> FALSE, resp |-> NoResponse,
                 installedAt |-> 0]],
     setpc |-> "idle", calls |-> 0, installed |-> 0]

InitProxy ==
    /\ fp = FpStart
    /\ UpIdle /\ MergeIdle /\ InspectIdle /\ TunnelIdle /\ TuiIdle
    /\ OverlayIdle /\ DocIdle /\ EditIdle

\* fp.mu.RLock() of the handler of a new GET /openapi.json
HandlerRLock ==
    /\ \E r \in Requests :
         /\ fp.req[r].pc = "new"
         /\ rlockFree(fp.mu)
         /\ fp' = [fp EXCEPT !.mu.readers = @ + 1, !.req[r].pc = "locked"]
    /\ UNCHANGED notProxyVars

\* if len(fp.spec) == 0
HandlerCheck ==
    /\ \E r \in Requests :
         /\ fp.req[r].pc = "locked"
         /\ fp' = [fp EXCEPT !.req[r].empty = (fp.spec = 0),
                             !.req[r].pc = "checked"]
    /\ UNCHANGED notProxyVars

\* http.Error(w, ..., 503) or the Content-Type header and w.Write(fp.spec)
HandlerWrite ==
    /\ \E r \in Requests :
         /\ fp.req[r].pc = "checked"
         /\ fp' = [fp EXCEPT
              !.req[r].resp =
                  IF fp.req[r].empty
                  THEN [status |-> StatusServiceUnavailable,
                        ctype |-> "text/plain", body |-> 0]
                  ELSE [status |-> StatusOK,
                        ctype |-> "application/json", body |-> fp.spec],
              !.req[r].installedAt = fp.installed,
              !.req[r].pc = "written"]
    /\ UNCHANGED notProxyVars

\* the deferred fp.mu.RUnlock()
HandlerRUnlock ==
    /\ \E r \in Requests :
         /\ fp.req[r].pc = "written"
         /\ fp' = [fp EXCEPT !.mu.readers = @ - 1, !.req[r].pc = "done"]
    /\ UNCHANGED notProxyVars

\* f.mu.Lock() of SetOpenAPI
SetLock ==
    /\ fp.setpc = "idle" /\ fp.calls < MaxInstalls
    /\ lockFree(fp.mu)
    /\ fp' = [fp EXCEPT !.mu.writer = TRUE, !.calls = @ + 1, !.setpc = "locked"]
    /\ UNCHANGED notProxyVars

\* f.spec = spec
SetAssign ==
    /\ fp.setpc = "locked"
    /\ fp' = [fp EXCEPT !.spec = fp.calls, !.setpc = "assigned"]
    /\ UNCHANGED notProxyVars

\* the deferred f.mu.Unlock(); SetOpenAPI returns
SetUnlock ==
    /\ fp.setpc = "assigned"
    /\ fp' = [fp EXCEPT !.mu.writer = FALSE, !.installed = fp.spec,
                        !.setpc = "idle"]
    /\ UNCHANGED notProxyVars

NextProxy ==
    \/ HandlerRLock
    \/ HandlerCheck
    \/ HandlerWrite
    \/ HandlerRUnlock
    \/ SetLock
    \/ SetAssign
    \/ SetUnlock

SpecProxy == InitProxy /\ [][NextProxy]_vars

(***************************************************************************)
(* startQuickTunnel once cloudflared has been started: the two reader      *)
(* goroutines (scanAndMaybeStream with the parse callback), the channel    *)
(* urlCh and the select of the supervisor.                                 *)
(*                                                                         *)
(* A line of cloudflared is "url" when it contains trycloudflare.com and   *)
(* an http URL (parse sends on urlCh) and "other" when parse does nothing. *)
(***************************************************************************)
UrlChCap == 1           \* make(chan string, 1)

Streams == {"stdout", "stderr"}
LineKinds == {"url", "other"}

QtStart ==
    [sup |-> "select",                       \* position of startQuickTunnel
     ch |-> 0,                               \* URLs buffered in urlCh
     pipe |-> [s \in Streams |-> <<>>],      \* lines written and not yet scanned
     closed |-> FALSE,                       \* cloudflared has exited
     rd |-> [s \in Streams |-> "scan"],      \* position of the reader of s
     written |-> 0]                          \* lines cloudflared has written

InitTunnel ==
    /\ qt = QtStart
    /\ UpIdle /\ MergeIdle /\ InspectIdle /\ ProxyIdle /\ TuiIdle
    /\ OverlayIdle /\ DocIdle /\ EditIdle

\* cloudflared writes a line to one of its streams.
ChildWrite ==
    /\ ~qt.closed /\ qt.written < MaxLines
    /\ \E s \in Streams, k \in LineKinds :
         qt' = [qt EXCEPT !.pipe[s] = Append(@, k), !.written = @ + 1]
    /\ UNCHANGED notTunnelVars

\* cloudflared exits: both pipes are closed.
ChildExit ==
    /\ ~qt.closed
    /\ qt' = [qt EXCEPT !.closed = TRUE]
    /\ UNCHANGED notTunnelVars

\* sc.Scan() returns a line; onLine(line) is called and, for a line with a
\* URL, reaches the send on urlCh.
ReaderScan ==
    /\ \E s \in Streams :
         /\ qt.rd[s] = "scan" /\ qt.pipe[s] # <<>>
         /\ qt' = [qt EXCEPT !.pipe[s] = Tail(@),
                             !.rd[s] = IF Head(qt.pipe[s]) = "url"
                                       THEN "send" ELSE "scan"]
    /\ UNCHANGED notTunnelVars

\* urlCh <- u: goes through when the buffer of urlCh has room.
ReaderSend ==
    /\ \E s \in Streams :
         /\ qt.rd[s] = "send" /\ qt.ch < UrlChCap
         /\ qt' = [qt EXCEPT !.ch = @ + 1, !.rd[s] = "scan"]
    /\ UNCHANGED notTunnelVars

\* sc.Scan() returns false: the pipe is closed and empty, the reader ends.
ReaderEOF ==
    /\ \E s \in Streams :
         /\ qt.rd[s] = "scan" /\ qt.pipe[s] = <<>> /\ qt.closed
         /\ qt' = [qt EXCEPT !.rd[s] = "done"]
    /\ UNCHANGED notTunnelVars

\* case u := <-urlCh of the select; startQuickTunnel returns the URL.
SelectUrl ==
    /\ qt.sup = "select" /\ qt.ch > 0
    /\ qt' = [qt EXCEPT !.ch = @ - 1, !.sup = "got"]
    /\ UNCHANGED notTunnelVars

\* case <-time.After(25 * time.Second); startQuickTunnel returns "".
SelectTimeout ==
    /\ qt.sup = "select"
    /\ qt' = [qt EXCEPT !.sup = "timeout"]
    /\ UNCHANGED notTunnelVars

NextTunnel ==
    \/ ChildWrite
    \/ ChildExit
    \/ ReaderScan
    \/ ReaderSend
    \/ ReaderEOF
    \/ SelectUrl
    \/ SelectTimeout

SpecTunnel == InitTunnel /\ [][NextTunnel]_vars

(***************************************************************************)
(* The preflight of cmdUp and the preflight UI (tui.Run).                   *)
(*                                                                         *)
(* ui is one record: pc is the position of cmdUp, todo the (instance,       *)
(* server) pairs the preflight loop has not inspected yet, outcome what     *)
(* InspectServer returned for a pair, byComposite the keys of              *)
(* pf.ByComposite, m the local variable m of tui.Run, prog the model the    *)
(* bubbletea program holds (Update has a value receiver and returns its     *)
(* copy; the overlay field is "ov", a pointer to the Overlay struct, or     *)
(* "nil"), ret what Run returned, printed the lines cmdUp printed,          *)
(* launchMode the local of cmdUp, disk the composite overlay in the         *)
(* overrides file, seed what loadOverridesComposite returned, heap the      *)
(* Overlay struct that the overlay pointers of m and prog point to.         *)
(***************************************************************************)
TuiStatusOK == 0
StatusERR == 1
StatusHTTP == 2

InstNames == {"alpha", "beta"}
ServerNames == 1..MaxServers
Pairs == InstNames \X ServerNames
Outcomes == {"tools", "empty", "err"}
Keys == {"q", "ctrl+c", "enter", "b", "esc", "c", "d", "a", "g", "m", "e",
         "i", "?", "up", "down", "ctrl+s"}

\* A nil map: every lookup finds nothing.
NilMap == <<>>

\* A composite overlay (tui.Overlay); isNil marks the nil pointer.
CompositeOverlay(dis, al, dn, ds, last) ==
    [isNil |-> FALSE, Disabled |-> dis, Allow |-> al, Deny |-> dn,
     Descriptions |-> ds, LastLaunch |-> last]

NilOverlay ==
    [isNil |-> TRUE, Disabled |-> NilMap, Allow |-> NilMap, Deny |-> NilMap,
     Descriptions |-> NilMap, LastLaunch |-> ""]

\* What the overrides file may hold when up starts: nothing (NilOverlay),
\* or an overlay saved by an earlier run.
PersistedOverlays ==
    {NilOverlay}
    \cup {CompositeOverlay(<<"alpha", 1>> :> TRUE,
                           <<"beta", 1>> :> ("read" :> TRUE),
                           <<"beta", 1>> :> ("write" :> TRUE),
                           <<"alpha", 1>> :> ("read" :> "short"),
                           last) : last \in {"none", "quick"}}

\* loadOverridesComposite: nil when there is no file, else the overlay the
\* file holds.
loadOverridesComposite(disk) == disk

\* saveOverridesComposite: a nil overlay leaves the file alone, any other
\* overlay replaces its contents.
saveOverridesComposite(disk, o) == IF o.isNil THEN disk ELSE o

LaunchChoices == <<"none", "quick", "named">>

UiStart(t, d) ==
    [pc |-> "preflight",
     useTUI |-> t,
     disk |-> d,
     loaded |-> d,
     seed |-> NilOverlay,
     heap |-> NilOverlay,
     todo |-> Pairs,
     outcome |-> [p \in Pairs |-> "pending"],
     byComposite |-> {},
     m |-> <<>>,
     prog |-> <<>>,
     ret |-> <<>>,
     printed |-> <<>>,
     launchMode |-> "mcpo"]

InitTui ==
    /\ \E t \in BOOLEAN, d \in PersistedOverlays : ui = UiStart(t, d)
    /\ UpIdle /\ MergeIdle /\ InspectIdle /\ ProxyIdle /\ TunnelIdle
    /\ OverlayIdle /\ DocIdle /\ EditIdle

\* The Overlay struct newModel allocates: the four maps are copied from the
\* seed, LastLaunch is left empty.
newOverlay(seed) ==
    IF seed.isNil
    THEN CompositeOverlay(NilMap, NilMap, NilMap, NilMap, "")
    ELSE CompositeOverlay(seed.Disabled, seed.Allow, seed.Deny,
                          seed.Descriptions, "")

\* newModel: names are the keys of servers, the overlay points to the fresh
\* struct, status and errs are stored as given, launch is the seed's
\* LastLaunch when it has one.
newModel(servers, seed, status, errs) ==
    [names |-> servers,
     overlay |-> "ov",
     status |-> status,
     errors |-> errs,
     mode |-> "list",
     launch |-> IF ~seed.isNil /\ seed.LastLaunch # ""
                THEN seed.LastLaunch ELSE "mcpo",
     launchSel |-> 0,
     controller |-> "mcpo",
     showHelp |-> FALSE,
     menuCursor |-> 0,
     editInsert |-> FALSE]

\* launchMode of the model.
launchMode(m) == IF m.controller = "raw" THEN "raw" ELSE "mcpo"

\* m.status[name] of Go: the zero value when the map has no such key.
statusOf(m, name) ==
    IF name \in DOMAIN m.status THEN m.status[name] ELSE TuiStatusOK

\* The badge viewList puts on the row of name.
listBadge(m, name) ==
    IF statusOf(m, name) = StatusERR THEN "ERR"
    ELSE IF statusOf(m, name) = StatusHTTP THEN "HTTP"
    ELSE ""

\* The error text viewMenu shows for name.
menuError(m, name) ==
    IF name \in DOMAIN m.status /\ m.status[name] = StatusERR
    THEN IF name \in DOMAIN m.errors /\ m.errors[name] # ""
         THEN m.errors[name]
         ELSE "No error details available"
    ELSE ""

\* Update on a key message: the model it returns and whether the command it
\* returns is tea.Quit. The receiver is a copy: m itself is not changed.
Update(m, k) ==
    LET stay == [m |-> m, quit |-> FALSE]
        to(md) == [m |-> [m EXCEPT !.mode = md], quit |-> FALSE]
        cancel == [m |-> [m EXCEPT !.overlay = "nil"], quit |-> TRUE]
        help == [m |-> [m EXCEPT !.showHelp = ~@], quit |-> FALSE]
    IN
    IF m.showHelp
    THEN IF k \in {"?", "esc", "b"}
         THEN [m |-> [m EXCEPT !.showHelp = FALSE], quit |-> FALSE]
         ELSE stay
    ELSE CASE m.mode = "list" ->
                CASE k \in {"q", "ctrl+c"} -> cancel
                  [] k = "?" -> help
                  [] k \in {"enter", "d"} ->
                        IF m.names = {} THEN stay ELSE to("menu")
                  [] k = "c" -> to("launch")
                  [] k = "g" ->
                        [m |-> [m EXCEPT !.controller =
                                   IF @ = "mcpo" THEN "raw" ELSE "mcpo"],
                         quit |-> FALSE]
                  [] OTHER -> stay
           [] m.mode = "menu" ->
                CASE k \in {"q", "ctrl+c"} -> cancel
                  [] k \in {"b", "esc"} -> to("list")
                  [] k = "?" -> help
                  [] k = "up" ->
                        [m |-> [m EXCEPT !.menuCursor =
                                   IF @ > 0 THEN @ - 1 ELSE @],
                         quit |-> FALSE]
                  [] k = "down" ->
                        [m |-> [m EXCEPT !.menuCursor =
                                   IF @ < 3 THEN @ + 1 ELSE @],
                         quit |-> FALSE]
                  [] k = "enter" ->
                        CASE m.menuCursor = 0 -> to("allow")
                          [] m.menuCursor = 1 -> to("deny")
                          [] m.menuCursor = 2 -> to("desc")
                          [] OTHER -> stay
                  [] k = "a" -> to("allow")
                  [] k = "d" -> to("deny")
                  [] k = "c" -> to("launch")
                  [] OTHER -> stay
           [] m.mode \in {"allow", "deny"} ->
                CASE k \in {"q", "ctrl+c"} -> cancel
                  [] k \in {"b", "esc", "enter"} -> to("menu")
                  [] k = "?" -> help
                  [] OTHER -> stay
           [] m.mode = "desc" ->
                CASE k \in {"q", "ctrl+c"} -> cancel
                  [] k \in {"b", "esc", "enter"} -> to("menu")
                  [] k = "?" -> help
                  [] k = "m" -> to("descMulti")
                  [] k = "e" ->
                        [m |-> [m EXCEPT !.mode = "descEdit",
                                         !.editInsert = TRUE],
                         quit |-> FALSE]
                  [] k = "d" -> to("diff")
                  [] OTHER -> stay
           [] m.mode = "descMulti" ->
                CASE k \in {"q", "ctrl+c"} -> cancel
                  [] k \in {"b", "esc", "enter", "m"} -> to("desc")
                  [] k = "?" -> help
                  [] OTHER -> stay
           [] m.mode = "descEdit" ->
                IF m.editInsert
                THEN CASE k = "esc" ->
                            [m |-> [m EXCEPT !.editInsert = FALSE],
                             quit |-> FALSE]
                       [] k = "ctrl+s" -> to("desc")
                       [] OTHER -> stay
                ELSE CASE k \in {"q", "ctrl+c"} -> cancel
                       [] k \in {"b", "esc", "enter"} -> to("desc")
                       [] k = "?" -> help
                       [] k = "i" ->
                            [m |-> [m EXCEPT !.editInsert = TRUE],
                             quit |-> FALSE]
                       [] OTHER -> stay
           [] m.mode = "diff" ->
                CASE k \in {"b", "esc", "enter", "q", "ctrl+c", "d"} ->
                        to("desc")
                  [] k = "?" -> help
                  [] OTHER -> stay
           [] m.mode = "launch" ->
                CASE k \in {"q", "ctrl+c"} -> cancel
                  [] k \in {"b", "esc"} -> to("list")
                  [] k = "?" -> help
                  [] k = "up" ->
                        [m |-> [m EXCEPT !.launchSel =
                                   IF @ > 0 THEN @ - 1 ELSE @],
                         quit |-> FALSE]
                  [] k = "down" ->
                        [m |-> [m EXCEPT !.launchSel =
                                   IF @ < 2 THEN @ + 1 ELSE @],
                         quit |-> FALSE]
                  [] k = "enter" -> [m |-> m, quit |-> TRUE]
                  [] OTHER -> stay

\* What Update leaves in the Overlay struct m.overlay points to: enter in the
\* launch screen stores the selected choice in LastLaunch.
updateOverlay(m, k, o) ==
    IF ~m.showHelp /\ m.mode = "launch" /\ k = "enter" /\ m.overlay # "nil"
    THEN [o EXCEPT !.LastLaunch = LaunchChoices[m.launchSel + 1]]
    ELSE o

\* One pass of the preflight loop: InspectServer on a server of an instance;
\* the tools are stored under the composite key when there is at least one.
PreflightInspect ==
    /\ ui.pc = "preflight"
    /\ \E p \in ui.todo, o \in Outcomes :
         ui' = [ui EXCEPT !.todo = @ \ {p},
                          !.outcome[p] = o,
                          !.byComposite = IF o = "tools"
                                          THEN @ \cup {p} ELSE @]
    /\ UNCHANGED notTuiVars

\* --tui is not set: the persisted overrides are loaded and cmdUp goes on to
\* launch.
SkipTui ==
    /\ ui.pc = "preflight" /\ ui.todo = {} /\ ~ui.useTUI
    /\ ui' = [ui EXCEPT !.pc = "launch",
                        !.seed = loadOverridesComposite(ui.disk)]
    /\ UNCHANGED notTuiVars

\* seed := loadOverridesComposite() and appTUI.Run(pf.ByComposite, seed) up
\* to p.Run(): m := newModel(...), and the program starts from the value of
\* m. No status and no error text is handed over.
RunStart ==
    /\ ui.pc = "preflight" /\ ui.todo = {} /\ ui.useTUI
    /\ LET seed == loadOverridesComposite(ui.disk) IN
       ui' = [ui EXCEPT !.pc = "tui",
                        !.seed = seed,
                        !.heap = newOverlay(seed),
                        !.m = newModel(ui.byComposite, seed, NilMap, NilMap),
                        !.prog = newModel(ui.byComposite, seed, NilMap, NilMap)]
    /\ UNCHANGED notTuiVars

\* The operator presses a key: the program calls Update on its model and
\* keeps the model Update returns; tea.Quit ends p.Run().
KeyPress ==
    /\ ui.pc = "tui"
    /\ \E k \in Keys :
         LET u == Update(ui.prog, k) IN
         ui' = [ui EXCEPT !.prog = u.m,
                          !.heap = updateOverlay(ui.prog, k, @),
                          !.pc = IF u.quit THEN "quit" ELSE "tui"]
    /\ UNCHANGED notTuiVars

\* p.Run() returns an error: Run returns (nil, "", err).
RunError ==
    /\ ui.pc = "tui"
    /\ ui' = [ui EXCEPT !.pc = "ret",
                        !.ret = [overlay |-> "nil", mode |-> "", err |-> TRUE]]
    /\ UNCHANGED notTuiVars

\* p.Run() returned without error and its model is dropped: Run returns
\* m.overlay and m.launchMode() of its own m.
RunReturn ==
    /\ ui.pc = "quit"
    /\ ui' = [ui EXCEPT !.pc = "ret",
                        !.ret = [overlay |-> ui.m.overlay,
                                 mode |-> launchMode(ui.m),
                                 err |-> FALSE]]
    /\ UNCHANGED notTuiVars

\* cmdUp after Run: an error is printed and the launch goes on; a nil
\* overlay prints "Cancelled." and returns; otherwise the overlay Run returned
\* (the struct m.overlay points to) is saved and the launch goes on in the
\* mode Run returned.
AfterRun ==
    /\ ui.pc = "ret"
    /\ ui' = IF ui.ret.err
             THEN [ui EXCEPT !.pc = "launch",
                             !.printed = Append(@, "TUI error")]
             ELSE IF ui.ret.overlay = "nil"
             THEN [ui EXCEPT !.pc = "cancelled",
                             !.printed = Append(@, "Cancelled.")]
             ELSE [ui EXCEPT !.pc = "launch",
                             !.disk = saveOverridesComposite(@, ui.heap),
                             !.launchMode = ui.ret.mode]
    /\ UNCHANGED notTuiVars

\* launchRaw, or the start loop of cmdUp: child processes are started.
StartChildren ==
    /\ ui.pc = "launch"
    /\ ui' = [ui EXCEPT !.pc = "started"]
    /\ UNCHANGED notTuiVars

NextTui ==
    \/ PreflightInspect
    \/ SkipTui
    \/ RunStart
    \/ KeyPress
    \/ RunError
    \/ RunReturn
    \/ AfterRun
    \/ StartChildren

SpecTui == InitTui /\ [][NextTui]_vars

(***************************************************************************)
(* translateOverlay and cloneConfigApplyOverlay.                           *)
(*                                                                         *)
(* tr is one record: op tells which of the two functions the call is, pc   *)
(* whether it has returned. A string is the sequence of its characters.    *)
(* For translateOverlay, instances are the names of the instances of the   *)
(* run, in the composite overlay and nested the overlay returned. For      *)
(* cloneConfigApplyOverlay, file is the source config, instName and ov the *)
(* arguments, err and out the error and the file written.                 *)
(***************************************************************************)
Chars == {"a", "b", "/"}
Strings(n) == UNION {[1..k -> Chars] : k \in 0..n}
CompKeys == Strings(MaxKeyLen)
InstanceLists == {<< <<"a">> >>, << <<"a">>, <<"b">> >>}

\* The names of a list of instances.
Names(insts) == {insts[j] : j \in 1..Len(insts)}

\* The split closure of translateOverlay: strings.SplitN(key, "/", 2).
split(key) ==
    LET slashes == {j \in 1..Len(key) : key[j] = "/"} IN
    IF slashes = {}
    THEN [ok |-> FALSE, inst |-> <<>>, srv |-> <<>>]
    ELSE LET j == CHOOSE x \in slashes : \A y \in slashes : x <= y IN
         [ok |-> TRUE,
          inst |-> SubSeq(key, 1, j - 1),
          srv |-> SubSeq(key, j + 1, Len(key))]

\* One section of the nested overlay: a map for every instance of the run
\* and for every instance part of a key of keys, holding the value of the
\* key under its server part.
nestSection(insts, m, keys) ==
    [i \in Names(insts) \cup {split(k).inst : k \in keys} |->
        [sv \in {split(k).srv : k \in {c \in keys : split(c).inst = i}} |->
            m[i \o <<"/">> \o sv]]]

translateOverlay(insts, in) ==
    LET splittable(m) == {k \in DOMAIN m : split(k).ok} IN
    [isNil |-> FALSE,
     Disabled |-> nestSection(insts, in.Disabled,
                     {k \in splittable(in.Disabled) : in.Disabled[k]}),
     Allow |-> nestSection(insts, in.Allow, splittable(in.Allow)),
     Deny |-> nestSection(insts, in.Deny, splittable(in.Deny)),
     Descriptions |-> nestSection(insts, in.Descriptions,
                         splittable(in.Descriptions))]

NilNested ==
    [isNil |-> TRUE, Disabled |-> NilMap, Allow |-> NilMap, Deny |-> NilMap,
     Descriptions |-> NilMap]

\* Number literals of a config file: a small one, 2^53 and 2^53 + 1.
SmallNumber == "1"
TwoTo53 == "9007199254740992"
TwoTo53Plus1 == "9007199254740993"
JsonNumbers == {SmallNumber, TwoTo53, TwoTo53Plus1}

\* json.Unmarshal into map[string]any: a number becomes the nearest float64.
float64Of(lit) == IF lit = TwoTo53Plus1 THEN TwoTo53 ELSE lit

\* json.MarshalIndent of a float64 that holds an integer below 1e21: its
\* decimal digits.
formatFloat(f) == f

\* A value of the config through json.Unmarshal and json.MarshalIndent.
jsonRoundTrip(v) == formatFloat(float64Of(v))

ConfigServers == {"s1", "s2"}
ConfigKeys == {"inputs"}

\* Source configs: mcpServers is an object or is missing; the entries of
\* mcpServers and the other top-level keys hold a number each.
ConfigFiles ==
    {[hasServers |-> h, servers |-> sv, other |-> ot] :
        h \in BOOLEAN,
        sv \in MapsOver(ConfigServers, JsonNumbers),
        ot \in MapsOver(ConfigKeys, JsonNumbers)}

\* Nested overlays handed to cloneConfigApplyOverlay for instance "a".
CloneOverlays ==
    {NilNested}
    \cup {[isNil |-> FALSE,
           Disabled |-> d,
           Allow |-> al,
           Deny |-> al,
           Descriptions |-> NilMap] :
            d \in {NilMap} \cup
                  {(<<"a">> :> x) @@ (<<"b">> :> ("s1" :> TRUE)) :
                       x \in MapsOver(ConfigServers, BOOLEAN)},
            al \in {NilMap, <<"a">> :> ("s1" :> ("read" :> TRUE))}}

\* cloneConfigApplyOverlay: the servers disabled for instName are deleted
\* from mcpServers and the document is written out again.
cloneConfigApplyOverlay(file, instName, o) ==
    IF ~file.hasServers
    THEN [err |-> TRUE, out |-> file]
    ELSE LET dis == IF ~o.isNil /\ instName \in DOMAIN o.Disabled
                    THEN {s \in DOMAIN o.Disabled[instName] :
                              o.Disabled[instName][s]}
                    ELSE {}
         IN [err |-> FALSE,
             out |-> [hasServers |-> TRUE,
                      servers |-> [s \in DOMAIN file.servers \ dis |->
                                      jsonRoundTrip(file.servers[s])],
                      other |-> [k \in DOMAIN file.other |->
                                    jsonRoundTrip(file.other[k])]]]

TrTranslate(insts, in) ==
    [op |-> "translate", pc |-> "call", instances |-> insts, in |-> in,
     nested |-> NilNested]

TrClone(file, o) ==
    [op |-> "clone", pc |-> "call", file |-> file, instName |-> <<"a">>,
     ov |-> o, err |-> FALSE, out |-> file]

\* ---- nameFromPath and the clone loop of cmdUp ----
\*   For op "plan": configs are the --config paths of the run, names the
\*   instance names cmdUp derives from them, configPath the ConfigPath of
\*   every instance after the clone loop (the directory tmp/<name> of its
\*   clone) and tmp, per such directory, the index of the config whose
\*   clone mcp.config.json was written there last. ".j" is the extension.
ConfigPathChoices ==
    {<<"a", "/", "m", ".", "j">>, <<"b", "/", "m", ".", "j">>,
     <<"m", "+", "x", ".", "j">>, <<"m", "-", "x", ".", "j">>,
     <<"x", ".", "j">>, <<"a", "/", ".", "j">>}

ConfigLists ==
    {<<p>> : p \in ConfigPathChoices}
    \cup {<<p, q>> : p \in ConfigPathChoices, q \in ConfigPathChoices}

\* strings.LastIndex, counted from 1; 0 when c does not occur.
lastIndex(str, c) ==
    LET at == {j \in 1..Len(str) : str[j] = c}
    IN IF at = {} THEN 0 ELSE CHOOSE j \in at : \A k \in at : k <= j

\* filepath.Base of a path that does not end in a slash.
pathBase(p) == SubSeq(p, lastIndex(p, "/") + 1, Len(p))

\* filepath.Ext: the suffix that starts at the last dot of the last element.
pathExt(p) ==
    LET b == pathBase(p)
    IN IF lastIndex(b, ".") = 0 THEN <<>>
       ELSE SubSeq(b, lastIndex(b, "."), Len(b))

SimpleChars == {"a", "b", "m", "x", "j", "-", "_"}

\* nameFromPath(p, i): the base name without its extension, every
\* character outside [A-Za-z0-9_-] replaced by '-'; "group<i+1>" when
\* nothing is left of the base name.
nameFromPath(p, i) ==
    LET b == pathBase(p)
        stem == SubSeq(b, 1, Len(b) - Len(pathExt(p)))
    IN IF stem = <<>>
       THEN <<"g", "r", "o", "u", "p", ToString(i + 1)>>
       ELSE [j \in 1..Len(stem) |->
                IF stem[j] \in SimpleChars THEN stem[j] ELSE "-"]

TrPlan(configs) ==
    [op |-> "plan", pc |-> "call", configs |-> configs, names |-> <<>>,
     configPath |-> <<>>, tmp |-> <<>>]

InitOverlay ==
    /\ \/ \E insts \in InstanceLists, k1 \in CompKeys, k2 \in CompKeys,
            d \in {"absent", "true", "false"}, rest \in BOOLEAN :
            tr = TrTranslate(insts,
                   CompositeOverlay(
                     IF d = "absent" THEN NilMap ELSE k1 :> (d = "true"),
                     IF rest THEN k2 :> ("read" :> TRUE) ELSE NilMap,
                     IF rest THEN k2 :> ("write" :> TRUE) ELSE NilMap,
                     IF rest THEN k2 :> ("read" :> "short") ELSE NilMap,
                     ""))
       \/ \E file \in ConfigFiles, o \in CloneOverlays : tr = TrClone(file, o)
       \/ \E configs \in ConfigLists : tr = TrPlan(configs)
    /\ UpIdle /\ MergeIdle /\ InspectIdle /\ ProxyIdle /\ TunnelIdle
    /\ TuiIdle /\ DocIdle /\ EditIdle

\* nestedOverlay = translateOverlay(instances, ovComposite)
Translate ==
    /\ tr.op = "translate" /\ tr.pc = "call"
    /\ tr' = [tr EXCEPT !.pc = "done",
                        !.nested = translateOverlay(tr.instances, tr.in)]
    /\ UNCHANGED notOverlayVars

\* cloned, err := cloneConfigApplyOverlay(inst.ConfigPath, inst.Name, ov)
Clone ==
    /\ tr.op = "clone" /\ tr.pc = "call"
    /\ LET r == cloneConfigApplyOverlay(tr.file, tr.instName, tr.ov) IN
       tr' = [tr EXCEPT !.pc = "done", !.err = r.err, !.out = r.out]
    /\ UNCHANGED notOverlayVars

\* cmdUp: the loop that builds the instance plans, then the loop that
\* clones every instance's config into tmp/<name>/mcp.config.json and
\* points the instance at its clone.
PlanAndClone ==
    /\ tr.op = "plan" /\ tr.pc = "call"
    /\ LET n == Len(tr.configs)
           names == [j \in 1..n |-> nameFromPath(tr.configs[j], j - 1)]
           dirs == {names[j] : j \in 1..n}
       IN tr' = [tr EXCEPT
                   !.pc = "done",
                   !.names = names,
                   !.configPath = names,
                   !.tmp = [d \in dirs |->
                              CHOOSE j \in 1..n :
                                 /\ names[j] = d
                                 /\ \A k \in 1..n : names[k] = d => k <= j]]
    /\ UNCHANGED notOverlayVars

NextOverlay ==
    \/ Translate
    \/ Clone
    \/ PlanAndClone

SpecOverlay == InitOverlay /\ [][NextOverlay]_vars

(***************************************************************************)
(* The passes of mergeOpenAPI over bounded per-server documents.           *)
(*                                                                         *)
(* dc is one record: pass tells which part of mergeOpenAPI the call        *)
(* exercises, pc how far it is. A string is the sequence of its            *)
(* characters. The overlay of these calls is nil: every path is allowed.   *)
(*   "merge": docs are the documents the gateway serves per enabled        *)
(*            server (raw path -> operationId of its get operation, <<>>   *)
(*            when it has none); out1 and out2 are the paths of the merged *)
(*            documents of two calls on the same input.                    *)
(***************************************************************************)
Underscores == <<"_", "_">>
GetMethod == <<"g", "e", "t">>
ServerS == <<"s">>
ServerST == <<"s", "_", "_", "t">>

\* Raw paths of a per-server document: "/x", "x", "/t-x", "/t_x".
RawPathStrings ==
    {<<"/", "x">>, <<"x">>, <<"/", "t", "-", "x">>, <<"/", "t", "_", "x">>}

\* operationId of an operation in a per-server document; <<>>: it has none.
OperationIdChoices == {<<>>, <<"x">>, <<"t", "_", "_", "x">>}

\* Per-server documents with at most MaxPaths paths whose own operationIds
\* are unique or absent.
ServerDocs ==
    {d \in UNION {[P -> OperationIdChoices] :
                     P \in {Q \in SUBSET RawPathStrings :
                               Cardinality(Q) <= MaxPaths}} :
        \A p, q \in DOMAIN d : (p # q /\ d[p] # <<>>) => d[p] # d[q]}

\* Byte values of the characters, as sort.Strings compares them.
CharRank(c) ==
    CASE c = "-" -> 45 [] c = "/" -> 47 [] c = "_" -> 95
      [] c = "e" -> 101 [] c = "g" -> 103 [] c = "s" -> 115
      [] c = "t" -> 116 [] c = "x" -> 120

\* a < b of Go strings.
stringLess(a, b) ==
    \E j \in 1..(Len(a) + 1) :
        /\ \A h \in 1..(j - 1) : h <= Len(b) /\ a[h] = b[h]
        /\ j <= Len(b)
        /\ j = Len(a) + 1 \/ CharRank(a[j]) < CharRank(b[j])

\* sort.Strings of a set of names.
sortStrings(S) ==
    CHOOSE sq \in [1..Cardinality(S) -> S] :
        \A i, j \in 1..Cardinality(S) : i < j => stringLess(sq[i], sq[j])

\* Orders in which a range over a map may visit its keys.
IterationOrders(S) ==
    {sq \in [1..Cardinality(S) -> S] :
        \A i, j \in 1..Cardinality(S) : i # j => sq[i] # sq[j]}

AlphaNum == {"e", "g", "s", "t", "x"}

sanitizeForID(p) == [j \in 1..Len(p) |-> IF p[j] \in AlphaNum THEN p[j] ELSE "_"]

\* strings.ToLower on the characters of the model, which are lower case.
toLower(sq) == [j \in 1..Len(sq) |-> sq[j]]

ensureLeadingSlash(sq) ==
    IF sq = <<>> THEN <<"/">>
    ELSE IF sq[1] # "/" THEN <<"/">> \o sq
    ELSE sq

\* strings.TrimLeft(name, "/")
RECURSIVE trimLeftSlash(_)
trimLeftSlash(sq) ==
    IF sq # <<>> /\ Head(sq) = "/" THEN trimLeftSlash(Tail(sq)) ELSE sq

newPath(name, rawPath) ==
    <<"/">> \o trimLeftSlash(name) \o ensureLeadingSlash(rawPath)

\* The operationId mergeOpenAPI gives an operation.
operationId(name, method, rawPath, oid) ==
    IF oid # <<>>
    THEN name \o Underscores \o oid
    ELSE name \o Underscores \o toLower(method) \o <<"_">>
              \o sanitizeForID(rawPath)

\* The paths loop of mergeOpenAPI for one server, visiting the raw paths in
\* the given order: pathsOut[newPath] = v.
RECURSIVE mergePaths(_, _, _, _)
mergePaths(out, name, doc, order) ==
    IF order = <<>> THEN out
    ELSE LET rp == Head(order)
             np == newPath(name, rp)
             item == [server |-> name, rawPath |-> rp,
                      operationId |-> operationId(name, GetMethod, rp, doc[rp])]
         IN mergePaths([p \in DOMAIN out \cup {np} |->
                           IF p = np THEN item ELSE out[p]],
                       name, doc, Tail(order))

\* The server loop of mergeOpenAPI: names in sorted order, orders[name] the
\* order in which the paths of the document of name are visited.
RECURSIVE mergeServers(_, _, _, _)
mergeServers(out, names, docsOf, orders) ==
    IF names = <<>> THEN out
    ELSE mergeServers(mergePaths(out, Head(names), docsOf[Head(names)],
                                 orders[Head(names)]),
                      Tail(names), docsOf, orders)

\* The per-server documents of a merge call: server "s" with any document
\* and, when two is set, server "s__t" with one operation.
MergeDocs(d, two) ==
    IF two
    THEN (ServerS :> d) @@ (ServerST :> (<<"/", "x">> :> <<"x">>))
    ELSE (ServerS :> d)

DcMerge(d, two) ==
    [pass |-> "merge", pc |-> "call", docs |-> MergeDocs(d, two),
     out1 |-> <<>>, out2 |-> <<>>]

\* ---- "refs": components and $ref strings ----
\*   comps[s] are the keys of components.schemas of the document of server
\*   s, refs[s] the $ref strings in it; mergedKeys and mergedRefs are the keys
\*   of components.schemas and the $ref strings of the merged document, warns
\*   what findDanglingComponentRefs reports on it.
RefServers == {"s1", "s2"}
ComponentNames == {"A", "B"}
ManagedSections == {"schemas", "parameters", "responses", "requestBodies"}

\* A $ref string "#/components/<section>/<tail joined by />"; a tail of one
\* segment names a component, a longer one points inside it.
Ref(sec, tail) == [section |-> sec, tail |-> tail]

RefChoices ==
    {Ref("schemas", << <<"A">> >>),
     Ref("schemas", << <<"B">> >>),
     Ref("schemas", << <<"A">>, <<"properties">>, <<"x">> >>),
     Ref("headers", << <<"A">> >>)}

\* The key "<tool>__<name>" of a component moved into the merged document.
namespaced(tool, name) == <<tool, "__">> \o name

\* rewriteRefString: strings.SplitN(rest, "/", 2) leaves everything after
\* the section in name, which is looked up in the local keys as a whole.
rewriteRefString(ref, tool, localKeys) ==
    IF /\ ref.section \in ManagedSections
       /\ Len(ref.tail) = 1
       /\ ref.tail[1] \in localKeys[ref.section]
    THEN Ref(ref.section, <<namespaced(tool, ref.tail[1])>>)
    ELSE ref

\* localKeys of mergeOpenAPI for a document whose components are all
\* schemas.
localKeysOf(names) ==
    [sec \in ManagedSections |->
        IF sec = "schemas" THEN {<<n>> : n \in names} ELSE {}]

\* findDanglingComponentRefs: the refs into a section the document has whose
\* name is not a key of it.
findDanglingComponentRefs(keys, refs) ==
    {r \in refs :
        /\ r.section \in ManagedSections
        /\ ~(Len(r.tail) = 1 /\ r.section = "schemas" /\ r.tail[1] \in keys)}

DcRefs(comps, refs) ==
    [pass |-> "refs", pc |-> "call", comps |-> comps, refs |-> refs,
     mergedKeys |-> {}, mergedRefs |-> {}, warns |-> {}]

\* ---- JSON values as encoding/json decodes them into any ----
\*   t is the Go type: "obj" map[string]any, "arr" []any, "str" string,
\*   "num" float64 (v counts halves, so that 3 is 1.5), "nil" a nil
\*   interface.
Obj(f) == [t |-> "obj", v |-> f]
Arr(sq) == [t |-> "arr", v |-> sq]
Str(x) == [t |-> "str", v |-> x]
Num(halves) == [t |-> "num", v |-> halves]
Nil == [t |-> "nil", v |-> <<>>]
EmptyObj == Obj(<<>>)

IsEmptyObj(n) == n.t = "obj" /\ DOMAIN n.v = {}

\* ---- "tighten": tightenResponses on one response object ----
\*   hasDesc: the response has a description; schema: the schema of its one
\*   media type; after the call outDesc, outContent (the media type is still
\*   there) and outSchema.
LeafSchemas == {EmptyObj, Obj("type" :> Str("string")), Obj("type" :> Str("null"))}

\* Schemas built over S: an anyOf of one or two of them, or an array schema
\* with one of them as its items.
SchemasOver(S) ==
    {Obj("anyOf" :> Arr(<<a>>)) : a \in S}
    \cup {Obj("anyOf" :> Arr(<<a, b>>)) : a \in S, b \in LeafSchemas}
    \cup {Obj(("type" :> Str("array")) @@ ("items" :> a)) : a \in S}

RECURSIVE SchemasOfDepth(_)
SchemasOfDepth(d) ==
    IF d = 0 THEN LeafSchemas
    ELSE SchemasOfDepth(d - 1) \cup SchemasOver(SchemasOfDepth(d - 1))

ResponseSchemas == SchemasOfDepth(MaxDepth)

\* The anyOf branch of cleanupSchemaNode: the entries that are not {}.
RECURSIVE dropEmpty(_)
dropEmpty(sq) ==
    IF sq = <<>> THEN <<>>
    ELSE IF IsEmptyObj(Head(sq)) THEN dropEmpty(Tail(sq))
    ELSE <<Head(sq)>> \o dropEmpty(Tail(sq))

RECURSIVE cleanupSchemaNode(_)
RECURSIVE cleanupEach(_)

\* The []any branch of cleanupSchemaNode: the cleaned entries that are not nil.
cleanupEach(sq) ==
    IF sq = <<>> THEN <<>>
    ELSE LET c == cleanupSchemaNode(Head(sq)) IN
         IF c.t = "nil" THEN cleanupEach(Tail(sq))
         ELSE <<c>> \o cleanupEach(Tail(sq))

cleanupSchemaNode(n) ==
    CASE n.t = "obj" ->
            IF DOMAIN n.v = {} THEN Nil
            ELSE IF "anyOf" \in DOMAIN n.v /\ n.v["anyOf"].t = "arr"
            THEN LET filtered == dropEmpty(n.v["anyOf"].v) IN
                 IF Len(filtered) = 0 THEN Nil
                 ELSE IF Len(filtered) = 1 THEN filtered[1]
                 ELSE Obj([n.v EXCEPT !["anyOf"] = Arr(filtered)])
            ELSE Obj([k \in DOMAIN n.v |->
                        IF k = "$ref" THEN n.v[k]
                        ELSE LET c == cleanupSchemaNode(n.v[k]) IN
                             IF c.t = "nil" THEN n.v[k] ELSE c])
      [] n.t = "arr" ->
            LET out == cleanupEach(n.v) IN
            IF Len(out) = 0 THEN Nil ELSE Arr(out)
      [] OTHER -> n

\* tightenResponses on a response with one media type that has a schema.
tightenResponse(hasDesc, schema) ==
    LET clean == cleanupSchemaNode(schema) IN
    [outDesc |-> TRUE,
     outContent |-> clean.t # "nil",
     outSchema |-> clean]

DcTighten(hasDesc, schema) ==
    [pass |-> "tighten", pc |-> "call", hasDesc |-> hasDesc,
     schema |-> schema, outDesc |-> hasDesc, outContent |-> TRUE,
     outSchema |-> schema]

\* ---- "coerce": coerceIntegerTypes ----
\*   schema is a schema object, doc the document it sits in, out the document
\*   after the call.
NumberChoices == {Num(-3), Num(-2), Num(1), Num(2)}
DefaultChoices == NumberChoices \cup {Str("2")}
EnumChoices ==
    {Arr(<<>>), Arr(<<Num(2)>>), Arr(<<Num(2), Num(1)>>),
     Arr(<<Num(-2), Num(2)>>), Arr(<<Str("2")>>)}
TypeChoices == {Str("number"), Str("string"), Str("integer")}

\* A JSON object with the given keys left out when their choice is Nil.
ObjOf(pairs) ==
    Obj([k \in {p[1] : p \in {q \in pairs : q[2].t # "nil"}} |->
            (CHOOSE p \in pairs : p[1] = k)[2]])

CoerceSchemas ==
    {ObjOf({<<"type", ty>>, <<"default", df>>, <<"enum", en>>,
            <<"multipleOf", mo>>}) :
        ty \in TypeChoices \cup {Nil},
        df \in DefaultChoices \cup {Nil},
        en \in EnumChoices \cup {Nil},
        mo \in {Num(1), Num(2), Nil}}

Wrappers == {"root", "property", "items", "anyOf"}

\* The document that holds schema s at the place the wrapper names.
wrap(w, s) ==
    CASE w = "root" -> s
      [] w = "property" ->
            Obj(("type" :> Str("object"))
                @@ ("properties" :> Obj("x" :> s)))
      [] w = "items" -> Obj(("type" :> Str("array")) @@ ("items" :> s))
      [] w = "anyOf" -> Obj("anyOf" :> Arr(<<Obj("type" :> Str("null")), s>>))

\* The schema at the place the wrapper names.
unwrap(w, d) ==
    CASE w = "root" -> d
      [] w = "property" -> d.v["properties"].v["x"]
      [] w = "items" -> d.v["items"]
      [] w = "anyOf" -> d.v["anyOf"].v[2]

\* math.Trunc(n) of a number counted in halves.
trunc(h) == IF h >= 0 THEN (h \div 2) * 2 ELSE 0 - ((0 - h) \div 2) * 2

isIntegralNumber(x) == x.t = "num" /\ trunc(x.v) = x.v

\* Variant of shouldBeInteger that accepts an enum with one integral entry.
shouldBeIntegerAnyEnum(schema) ==
    \/ "default" \in DOMAIN schema /\ isIntegralNumber(schema["default"])
    \/ /\ "enum" \in DOMAIN schema /\ schema["enum"].t = "arr"
       /\ \E j \in 1..Len(schema["enum"].v) :
             isIntegralNumber(schema["enum"].v[j])
    \/ "multipleOf" \in DOMAIN schema /\ isIntegralNumber(schema["multipleOf"])

shouldBeInteger(schema) ==
    \/ "default" \in DOMAIN schema /\ isIntegralNumber(schema["default"])
    \/ /\ "enum" \in DOMAIN schema /\ schema["enum"].t = "arr"
       /\ Len(schema["enum"].v) > 0
       /\ \A j \in 1..Len(schema["enum"].v) :
             isIntegralNumber(schema["enum"].v[j])
    \/ "multipleOf" \in DOMAIN schema /\ isIntegralNumber(schema["multipleOf"])

RECURSIVE coerceIntegerTypes(_)
coerceIntegerTypes(root) ==
    CASE root.t = "obj" ->
            LET node == IF /\ "type" \in DOMAIN root.v
                           /\ root.v["type"].t = "str"
                           /\ root.v["type"].v = "number"
                           /\ shouldBeInteger(root.v)
                        THEN [root.v EXCEPT !["type"] = Str("integer")]
                        ELSE root.v
            IN Obj([k \in DOMAIN node |->
                      IF k = "$ref" THEN node[k]
                      ELSE coerceIntegerTypes(node[k])])
      [] root.t = "arr" ->
            Arr([j \in 1..Len(root.v) |-> coerceIntegerTypes(root.v[j])])
      [] OTHER -> root

DcCoerce(w, s) ==
    [pass |-> "coerce", pc |-> "call", wrapper |-> w, schema |-> s,
     doc |-> wrap(w, s), out |-> wrap(w, s)]

\* ---- "warn": the description override and the length warning ----
\*   A description is its number of graphemes and its number of runes (code
\*   points); a grapheme has one rune or more. orig is the description of
\*   the operation in the per-server document, override the one of the
\*   overlay for its tool ("none": no entry); final and warnings are the
\*   description and the number of warnings after the call.
descLimit == 300

Desc(g, r) == [graphemes |-> g, runes |-> r]
EmptyDesc == Desc(0, 0)

\* Descriptions around the limit: up to MaxExtraRunes graphemes have a
\* second rune.
LongDescs ==
    {Desc(g, g + x) : g \in (descLimit - 1)..(descLimit + 1),
                      x \in 0..MaxExtraRunes}

\* Variant of the length test that warns from the limit on.
tooLongFromLimit(d) == d.runes >= descLimit

\* len([]rune(desc)) > descLimit
tooLong(d) == d.runes > descLimit

\* The description of the operation after the override, and the warnings
\* recorded for it. hasOrig: the operation has a description of its own.
describe(hasOrig, orig, hasOverride, override) ==
    LET set == hasOverride /\ override # EmptyDesc
        has == set \/ hasOrig
        final == IF set THEN override ELSE orig
    IN [hasFinal |-> has,
        final |-> final,
        warnings |-> IF has /\ tooLong(final) THEN 1 ELSE 0]

DcWarn(hasOrig, orig, hasOverride, override) ==
    [pass |-> "warn", pc |-> "call", hasOrig |-> hasOrig, orig |-> orig,
     hasOverride |-> hasOverride, override |-> override,
     hasFinal |-> FALSE, final |-> EmptyDesc, warnings |-> 0]

InitDoc ==
    /\ \/ \E d \in ServerDocs, two \in BOOLEAN : dc = DcMerge(d, two)
       \/ \E comps \in [RefServers -> SUBSET ComponentNames],
             refs \in [RefServers -> SUBSET RefChoices] :
            dc = DcRefs(comps, refs)
       \/ \E h \in BOOLEAN, s \in ResponseSchemas : dc = DcTighten(h, s)
       \/ \E w \in Wrappers, s \in CoerceSchemas : dc = DcCoerce(w, s)
       \/ \E ho \in BOOLEAN, o \in LongDescs \cup {EmptyDesc},
             hv \in BOOLEAN, v \in LongDescs \cup {EmptyDesc} :
            dc = DcWarn(ho, IF ho THEN o ELSE EmptyDesc,
                        hv, IF hv THEN v ELSE EmptyDesc)
    /\ UpIdle /\ MergeIdle /\ InspectIdle /\ ProxyIdle /\ TunnelIdle
    /\ TuiIdle /\ OverlayIdle /\ EditIdle

\* The choices of an order for the range over the paths of every document.
PathOrders(docsOf) ==
    {orders \in [DOMAIN docsOf ->
                    UNION {IterationOrders(DOMAIN docsOf[n]) :
                              n \in DOMAIN docsOf}] :
        \A n \in DOMAIN docsOf :
            orders[n] \in IterationOrders(DOMAIN docsOf[n])}

\* The paths of the document mergeOpenAPI returns.
mergeOpenAPIPaths(docsOf, orders) ==
    mergeServers(<<>>, sortStrings(DOMAIN docsOf), docsOf, orders)

\* A call of mergeOpenAPI: every range over the paths of a document visits
\* them in some order.
MergeOnce ==
    /\ dc.pass = "merge" /\ dc.pc = "call"
    /\ \E orders \in PathOrders(dc.docs) :
         dc' = [dc EXCEPT !.pc = "once",
                          !.out1 = mergeOpenAPIPaths(dc.docs, orders)]
    /\ UNCHANGED notDocVars

\* A second call of mergeOpenAPI on the same documents.
MergeAgain ==
    /\ dc.pass = "merge" /\ dc.pc = "once"
    /\ \E orders \in PathOrders(dc.docs) :
         dc' = [dc EXCEPT !.pc = "twice",
                          !.out2 = mergeOpenAPIPaths(dc.docs, orders)]
    /\ UNCHANGED notDocVars

\* The rewrite of the $refs of every document, the move of its components
\* and the audit of the merged document.
RewriteRefs ==
    /\ dc.pass = "refs" /\ dc.pc = "call"
    /\ LET keys == UNION {{namespaced(s, <<k>>) : k \in dc.comps[s]} :
                             s \in RefServers}
           refs == UNION {{[server |-> s, from |-> r,
                            ref |-> rewriteRefString(r, s,
                                       localKeysOf(dc.comps[s]))] :
                              r \in dc.refs[s]} : s \in RefServers}
       IN dc' = [dc EXCEPT !.pc = "done",
                           !.mergedKeys = keys,
                           !.mergedRefs = refs,
                           !.warns = findDanglingComponentRefs(keys,
                                         {x.ref : x \in refs})]
    /\ UNCHANGED notDocVars

Tighten ==
    /\ dc.pass = "tighten" /\ dc.pc = "call"
    /\ LET r == tightenResponse(dc.hasDesc, dc.schema) IN
       dc' = [dc EXCEPT !.pc = "done", !.outDesc = r.outDesc,
                        !.outContent = r.outContent,
                        !.outSchema = r.outSchema]
    /\ UNCHANGED notDocVars

Coerce ==
    /\ dc.pass = "coerce" /\ dc.pc = "call"
    /\ dc' = [dc EXCEPT !.pc = "done", !.out = coerceIntegerTypes(dc.doc)]
    /\ UNCHANGED notDocVars

Describe ==
    /\ dc.pass = "warn" /\ dc.pc = "call"
    /\ LET r == describe(dc.hasOrig, dc.orig, dc.hasOverride, dc.override) IN
       dc' = [dc EXCEPT !.pc = "done", !.hasFinal = r.hasFinal,
                        !.final = r.final, !.warnings = r.warnings]
    /\ UNCHANGED notDocVars

NextDoc ==
    \/ MergeOnce
    \/ MergeAgain
    \/ RewriteRefs
    \/ Tighten
    \/ Coerce
    \/ Describe

SpecDoc == InitDoc /\ [][NextDoc]_vars

(***************************************************************************)
(* The tool editor of the preflight UI, the scroll state of the diff view  *)
(* and the tags of a description.                                          *)
(*                                                                         *)
(* ed is one record; op tells what the session exercises.                  *)
(*   "select": the model of the UI from the menu of one server on. allow,  *)
(*             deny and disabled are the entries of m.overlay.Allow, Deny  *)
(*             and Disabled for m.curServer (has: the map has the key; set: *)
(*             the tools it maps to true); curTools, cursorTool,           *)
(*             editSelect, menuCursor and mode are the fields of the       *)
(*             model. opened holds allow and deny as they were when the    *)
(*             editor was opened, toggled whether space was pressed since, *)
(*             confirmed whether the last key was Enter in an editor, keys *)
(*             the number of keys so far.                                  *)
(*   "scroll": ops are the ScrollLeft / ScrollRight calls made on a        *)
(*             UIState that started as UIState{}, offs the offsets at the  *)
(*             start and after every call.                                 *)
(*   "tags":   one call of ComputeTags(raw, modified, limit, edited).      *)
(***************************************************************************)
NoEntry == [has |-> FALSE, set |-> {}]
Entry(S) == [has |-> TRUE, set |-> S]

ToolLists == {<<>>, <<"read", "write">>}
AllowEntries == {NoEntry, Entry({"read"}), Entry({"read", "write"})}
DenyEntries == {NoEntry, Entry({"write"})}
EditKeys == {"enter", "a", "d", "up", "down", " ", "b"}

ToolsOf(list) == {list[j] : j \in 1..Len(list)}

\* prepareToolEditor(presetAll), called while m.mode is still the mode the
\* key was pressed in: every tool gets presetAll, then the selection is
\* seeded from the allow or deny entry if m.mode is that editor's mode.
prepareToolEditor(m, presetAll) ==
    LET preset == [t \in ToolsOf(m.tools) |-> presetAll]
        seeded ==
            IF m.mode = "allow"
            THEN IF m.allow.has
                 THEN [t \in DOMAIN preset |-> t \in m.allow.set]
                 ELSE preset
            ELSE IF m.mode = "deny"
            THEN IF m.deny.has
                 THEN [t \in DOMAIN preset |-> t \in m.deny.set]
                 ELSE preset
            ELSE preset
    IN [m EXCEPT !.curTools = m.tools, !.cursorTool = 0,
                 !.editSelect = seeded]

\* The cursor and space keys of the two editors.
editorMove(m, k) ==
    CASE k = "up" ->
            [m EXCEPT !.cursorTool = IF @ > 0 THEN @ - 1 ELSE @]
      [] k = "down" ->
            [m EXCEPT !.cursorTool =
                        IF @ < Len(m.curTools) - 1 THEN @ + 1 ELSE @]
      [] k = " " ->
            IF Len(m.curTools) > 0
            THEN [m EXCEPT !.editSelect[m.curTools[m.cursorTool + 1]] = ~@]
            ELSE m
      [] OTHER -> m

\* Update on a key in the menu of a server and in its allow / deny editor.
UpdateEditor(m, k) ==
    LET selected == {t \in DOMAIN m.editSelect : m.editSelect[t]}
    IN
    CASE m.mode = "list" ->
            IF k \in {"enter", "d"} THEN [m EXCEPT !.mode = "menu"] ELSE m
      [] m.mode = "menu" ->
            CASE k = "b" -> [m EXCEPT !.mode = "list"]
              [] k = "up" ->
                    [m EXCEPT !.menuCursor = IF @ > 0 THEN @ - 1 ELSE @]
              [] k = "down" ->
                    [m EXCEPT !.menuCursor = IF @ < 3 THEN @ + 1 ELSE @]
              [] k = "enter" ->
                    CASE m.menuCursor = 0 ->
                            [prepareToolEditor(m, TRUE) EXCEPT
                                !.mode = "allow"]
                      [] m.menuCursor = 1 ->
                            [prepareToolEditor(m, FALSE) EXCEPT
                                !.mode = "deny"]
                      [] m.menuCursor = 2 ->
                            [prepareToolEditor(m, TRUE) EXCEPT
                                !.mode = "desc"]
                      [] OTHER -> [m EXCEPT !.disabled = ~@]
              [] k = "a" ->
                    [prepareToolEditor(m, TRUE) EXCEPT !.mode = "allow"]
              [] k = "d" ->
                    [prepareToolEditor(m, FALSE) EXCEPT !.mode = "deny"]
              [] OTHER -> m
      [] m.mode = "allow" ->
            CASE k = "b" -> [m EXCEPT !.mode = "menu"]
              [] k = "enter" ->
                    IF \A j \in 1..Len(m.curTools) :
                           m.editSelect[m.curTools[j]]
                    THEN [m EXCEPT !.allow = NoEntry, !.mode = "menu"]
                    ELSE [m EXCEPT !.allow = Entry(selected),
                                   !.mode = "menu"]
              [] OTHER -> editorMove(m, k)
      [] m.mode = "deny" ->
            CASE k = "b" -> [m EXCEPT !.mode = "menu"]
              [] k = "enter" ->
                    IF selected = {}
                    THEN [m EXCEPT !.deny = NoEntry, !.mode = "menu"]
                    ELSE [m EXCEPT !.deny = Entry(selected),
                                   !.mode = "menu"]
              [] OTHER -> editorMove(m, k)
      [] OTHER ->
            IF k = "b" THEN [m EXCEPT !.mode = "menu"] ELSE m

EdSelect(tools, allow, deny) ==
    [op |-> "select", mode |-> "menu", menuCursor |-> 0, tools |-> tools,
     curTools |-> <<>>, cursorTool |-> 0, editSelect |-> <<>>,
     allow |-> allow, deny |-> deny, disabled |-> FALSE,
     opened |-> [allow |-> allow, deny |-> deny], toggled |-> FALSE,
     confirmed |-> FALSE, keys |-> 0]

\* ---- "scroll" ----
ScrollOp(op, fast, leftColumn) ==
    [op |-> op, fast |-> fast, leftColumn |-> leftColumn]

Offsets(l, r) == [ScrollHLeft |-> l, ScrollHRight |-> r]

scrollDelta(fast) == IF fast THEN 8 ELSE 1

\* Variant of ScrollLeft that subtracts without looking at the offset.
ScrollLeftNoFloor(s, fast, leftColumn) ==
    IF leftColumn
    THEN [s EXCEPT !.ScrollHLeft = @ - scrollDelta(fast)]
    ELSE [s EXCEPT !.ScrollHRight = @ - scrollDelta(fast)]

ScrollLeft(s, fast, leftColumn) ==
    LET delta == scrollDelta(fast)
    IN IF leftColumn
       THEN [s EXCEPT !.ScrollHLeft = IF @ >= delta THEN @ - delta ELSE 0]
       ELSE [s EXCEPT !.ScrollHRight = IF @ >= delta THEN @ - delta ELSE 0]

ScrollRight(s, fast, leftColumn) ==
    LET delta == scrollDelta(fast)
    IN IF leftColumn
       THEN [s EXCEPT !.ScrollHLeft = @ + delta]
       ELSE [s EXCEPT !.ScrollHRight = @ + delta]

EdScroll ==
    [op |-> "scroll", ops |-> <<>>, offs |-> <<Offsets(0, 0)>>]

\* ---- "tags" ----
TextChars == {"a", " "}
Texts == UNION {[1..n -> TextChars] : n \in 0..MaxTextLen}
Limits == -1..MaxTextLen

\* strings.TrimSpace
RECURSIVE TrimSpace(_)
TrimSpace(str) ==
    IF str = <<>> THEN str
    ELSE IF Head(str) = " " THEN TrimSpace(Tail(str))
    ELSE IF str[Len(str)] = " " THEN TrimSpace(SubSeq(str, 1, Len(str) - 1))
    ELSE str

wordSafeTrim(str, limit) ==
    IF limit <= 0 \/ Len(str) <= limit THEN str
    ELSE LET spaces == {j \in 1..limit : str[j] = " "}
         IN IF spaces # {}
            THEN LET boundary == CHOOSE j \in spaces :
                                    \A k \in spaces : k <= j
                 IN TrimSpace(SubSeq(str, 1, boundary - 1))
            ELSE SubSeq(str, 1, limit)

hardTruncate(str, limit) ==
    IF limit <= 0 \/ Len(str) <= limit THEN str ELSE SubSeq(str, 1, limit)

Tag(kind, value) == [Kind |-> kind, Value |-> value]

\* Variant of ComputeTags in which each of the two heuristics is tagged on
\* its own.
ComputeTagsIndependent(raw, modified, limit, edited) ==
    LET rawLen == Len(raw)
        modLen == Len(modified)
        trimmed == rawLen > modLen /\ modified = wordSafeTrim(raw, limit)
        truncated == rawLen > modLen /\ modified = hardTruncate(raw, limit)
    IN (IF edited THEN <<Tag("EDITED", 0)>> ELSE <<>>)
       \o (IF trimmed THEN <<Tag("TRIMMED", 0)>> ELSE <<>>)
       \o (IF truncated THEN <<Tag("TRUNCATED", 0)>> ELSE <<>>)
       \o <<Tag("ORIG_LEN", rawLen), Tag("MOD_LEN", modLen)>>

ComputeTags(raw, modified, limit, edited) ==
    LET rawLen == Len(raw)
        modLen == Len(modified)
        wsTrim == wordSafeTrim(raw, limit)
        hardCut == hardTruncate(raw, limit)
        trimmed == rawLen > modLen /\ modified = wsTrim /\ wsTrim # hardCut
        truncated == rawLen > modLen /\ modified = hardCut
        over == IF limit > 0 /\ rawLen > limit THEN rawLen - limit ELSE 0
    IN (IF edited THEN <<Tag("EDITED", 0)>> ELSE <<>>)
       \o (IF trimmed THEN <<Tag("TRIMMED", 0)>> ELSE <<>>)
       \o (IF ~trimmed /\ truncated THEN <<Tag("TRUNCATED", 0)>> ELSE <<>>)
       \o (IF over > 0 THEN <<Tag("OVER_LIMIT", over)>> ELSE <<>>)
       \o <<Tag("ORIG_LEN", rawLen), Tag("MOD_LEN", modLen)>>

EdTags(raw, modified, limit, edited) ==
    [op |-> "tags", pc |-> "call", raw |-> raw, modified |-> modified,
     limit |-> limit, edited |-> edited, tags |-> <<>>]

InitEdit ==
    /\ \/ \E tools \in ToolLists, al \in AllowEntries, dn \in DenyEntries :
            ed = EdSelect(tools, al, dn)
       \/ ed = EdScroll
       \/ \E raw \in Texts, modified \in Texts, limit \in Limits,
             edited \in BOOLEAN :
            ed = EdTags(raw, modified, limit, edited)
    /\ UpIdle /\ MergeIdle /\ InspectIdle /\ ProxyIdle /\ TunnelIdle
    /\ TuiIdle /\ OverlayIdle /\ DocIdle

\* The operator presses a key in the menu or in an editor.
EditKey ==
    /\ ed.op = "select" /\ ed.keys < MaxKeys
    /\ \E k \in EditKeys :
         LET m == UpdateEditor(ed, k)
             opens == ed.mode = "menu" /\ m.mode \in {"allow", "deny"}
             inEditor == ed.mode \in {"allow", "deny"}
         IN ed' = [m EXCEPT
                     !.keys = @ + 1,
                     !.opened = IF opens
                                THEN [allow |-> ed.allow, deny |-> ed.deny]
                                ELSE @,
                     !.toggled = IF opens THEN FALSE
                                 ELSE IF inEditor /\ k = " "
                                         /\ Len(ed.curTools) > 0
                                 THEN TRUE ELSE @,
                     !.confirmed = inEditor /\ k = "enter"]
    /\ UNCHANGED notEditVars

\* s = ScrollLeft(s, fast, leftColumn)
ScrollLeftCall ==
    /\ ed.op = "scroll" /\ Len(ed.ops) < MaxScrolls
    /\ \E fast \in BOOLEAN, leftColumn \in BOOLEAN :
         ed' = [ed EXCEPT
                  !.ops = Append(@, ScrollOp("left", fast, leftColumn)),
                  !.offs = Append(@, ScrollLeft(ed.offs[Len(ed.offs)],
                                                fast, leftColumn))]
    /\ UNCHANGED notEditVars

\* s = ScrollRight(s, fast, leftColumn)
ScrollRightCall ==
    /\ ed.op = "scroll" /\ Len(ed.ops) < MaxScrolls
    /\ \E fast \in BOOLEAN, leftColumn \in BOOLEAN :
         ed' = [ed EXCEPT
                  !.ops = Append(@, ScrollOp("right", fast, leftColumn)),
                  !.offs = Append(@, ScrollRight(ed.offs[Len(ed.offs)],
                                                 fast, leftColumn))]
    /\ UNCHANGED notEditVars

\* tags := ComputeTags(raw, modified, limit, edited)
Tags ==
    /\ ed.op = "tags" /\ ed.pc = "call"
    /\ ed' = [ed EXCEPT !.pc = "done",
                        !.tags = ComputeTags(ed.raw, ed.modified, ed.limit,
                                             ed.edited)]
    /\ UNCHANGED notEditVars

NextEdit ==
    \/ EditKey
    \/ ScrollLeftCall
    \/ ScrollRightCall
    \/ Tags

SpecEdit == InitEdit /\ [][NextEdit]_vars

(***************************************************************************)
(* Claims about the overlay filter.                                        *)
(***************************************************************************)
\* The overlay read as sets, directly from the maps.
ovDisabled(inst, server) ==
    /\ ov # <<>>
    /\ inst \in DOMAIN ov[1].Disabled[1]
    /\ server \in DOMAIN ov[1].Disabled[1][inst][1]
    /\ ov[1].Disabled[1][inst][1][server]

ovHasAllow(inst, server) ==
    /\ ov # <<>>
    /\ inst \in DOMAIN ov[1].Allow[1]
    /\ server \in DOMAIN ov[1].Allow[1][inst][1]

ovAllowSet(inst, server) ==
    LET m == ov[1].Allow[1][inst][1][server][1]
    IN {t \in DOMAIN m : m[t]}

ovDenySet(inst, server) ==
    IF /\ ov # <<>>
       /\ inst \in DOMAIN ov[1].Deny[1]
       /\ server \in DOMAIN ov[1].Deny[1][inst][1]
    THEN LET m == ov[1].Deny[1][inst][1][server][1]
         IN {t \in DOMAIN m : m[t]}
    ELSE {}

\* The server and the tool an emitted merged path stands for.
pathServer(k) == k[1]
pathTool(k) == IF Len(k) > 1 THEN k[2] ELSE ""

\* C4: every path item present in the merged document belongs to a server
\* that is not disabled and to a tool that is inside the allow-set when one
\* exists and outside the deny-set otherwise.
C4_MergedOperationsAllowed ==
    \A k \in DOMAIN pathsOut :
        LET s == pathServer(k)
            t == pathTool(k)
        IN /\ ~ovDisabled(MergedInst, s)
           /\ ovHasAllow(MergedInst, s) => t \in ovAllowSet(MergedInst, s)
           /\ ~ovHasAllow(MergedInst, s) => t \notin ovDenySet(MergedInst, s)

\* A finished merge that emitted a path of one tool and withheld a path of
\* a denied tool whose last segment is not denied.
C4_Witness ==
    /\ mpc = "done"
    /\ <<"s1", "t2">> \in DOMAIN pathsOut
    /\ <<"t1", "sub">> \in docs["s1"]
    /\ <<"s1", "t1", "sub">> \notin DOMAIN pathsOut
    /\ ~ovHasAllow(MergedInst, "s1")
    /\ "t1" \in ovDenySet(MergedInst, "s1")

\* C5: allowed is false for a disabled server; otherwise with an allow-set
\* it is true exactly for the tools in it; otherwise it is false for the
\* tools in the deny-set and true for every other tool.
C5_AllowedDecision ==
    mpc = "asked" =>
        LET inst == query[1]
            server == query[2]
            tool == query[3]
        IN /\ ovDisabled(inst, server) => answer = FALSE
           /\ (~ovDisabled(inst, server) /\ ovHasAllow(inst, server)) =>
                  answer = (tool \in ovAllowSet(inst, server))
           /\ (~ovDisabled(inst, server) /\ ~ovHasAllow(inst, server)
                 /\ tool \in ovDenySet(inst, server)) => answer = FALSE
           /\ (~ovDisabled(inst, server) /\ ~ovHasAllow(inst, server)
                 /\ tool \notin ovDenySet(inst, server)) => answer = TRUE

\* allowed was asked about a tool that is both in the allow-set and in the
\* deny-set of an enabled server, and answered true.
C5_Witness ==
    /\ mpc = "asked"
    /\ ~ovDisabled(query[1], query[2])
    /\ ovHasAllow(query[1], query[2])
    /\ query[3] \in ovAllowSet(query[1], query[2])
    /\ query[3] \in ovDenySet(query[1], query[2])
    /\ answer = TRUE

(***************************************************************************)
(* Claims about cmdUp.                                                     *)
(***************************************************************************)
IsRun(i) == \E k \in 1..Len(runs) : runs[k] = i

ChildrenOf(i) == {McpoPidOf(i), McpChildOf(i)} \cup
                 (IF tunnelOf[i] > 0 THEN {tunnelOf[i]} ELSE {})

\* C1: after a signal, once the cleanup sweep has returned, no gateway, no
\* MCP server of a gateway's process group and no tunnel process of a
\* started stack is alive.
C1_NoChildAfterSignalCleanup ==
    (pc = "exited" /\ cause = "signal") =>
        \A i \in 1..nCfg : IsRun(i) => ChildrenOf(i) \cap procAlive = {}

\* C2: from the moment a tunnel process has been spawned for an instance
\* until teardown, the in-memory record and the record in state.json both
\* hold the tunnel's PID.
C2_TunnelPidRemembered ==
    \A i \in 1..nCfg :
        (tunnelOf[i] > 0 /\ pc \in {"quickwait", "merge", "start", "ready",
                                    "tunnel", "report", "waiting"}) =>
            /\ instances[i].CloudflaredPID = tunnelOf[i]
            /\ Len(stFile) >= i
            /\ stFile[i].CloudflaredPID = tunnelOf[i]

\* C3: the front port and the gateway port of an instance differ from the
\* front port and the gateway port of every other instance.
C3_PortsDistinctAcrossInstances ==
    \A i, j \in 1..Len(instances) :
        i # j =>
            {instances[i].FrontPort, instances[i].McpoPort} \cap
            {instances[j].FrontPort, instances[j].McpoPort} = {}

(***************************************************************************)
(* Claims about the inspector.                                             *)
(***************************************************************************)
\* C6: notifications/initialized is sent only once the response with id 1
\* has been observed, a tools/list only after notifications/initialized,
\* and the request of a later page only once the response to the request
\* of the page before it has been received.
C6_HandshakeOrder ==
    \A k \in 1..Len(ins.sent) :
        LET m == ins.sent[k]
        IN /\ m.method = "notifications/initialized" => 1 \in ins.seen
           /\ m.method = "tools/list" =>
                \E j \in 1..(k - 1) :
                    ins.sent[j].method = "notifications/initialized"
           /\ (m.method = "tools/list" /\ m.shape = "cursor") =>
                (m.id - 1) \in ins.seen

\* A session that ended well after a second page, with noise on stdout.
C6_Witness ==
    /\ ins.pc = "done" /\ ins.result = "ok"
    /\ ins.srvNoise > 0
    /\ \E k \in 1..Len(ins.sent) : ins.sent[k].shape = "cursor"

\* C7: a server that writes its initialize response 15 s after the
\* inspection started, and otherwise answers every request without error
\* or noise, is inspected successfully.
C7_ColdStartInspected ==
    (/\ ins.pc = "done"
     /\ ins.initRespAt = 15
     /\ ins.srvNoise = 0 /\ ~ins.srvErrs /\ ~ins.eof) =>
        (ins.result = "ok" /\ ins.tools > 0)

\* C8: the first wait is 6 s long; when it ends with deadline-exceeded the
\* read is retried once, with MCP_INIT_TIMEOUT_SEC seconds (20 when unset);
\* when it ends with another error there is no retry and the inspection
\* has failed.
C8_RetryOnceOnDeadline ==
    LET w == ins.waits
    IN /\ Len(w) <= 2
       /\ Len(w) >= 1 => w[1] = 6
       /\ ins.fastEnd = "ok" => Len(w) = 1
       /\ ins.fastEnd = "deadline exceeded" =>
            /\ Len(w) = 2
            /\ ins.env = "" => w[2] = 20
            /\ ins.env = "5" => w[2] = 5
       /\ ins.fastEnd \in {"EOF", "initialize failed"} =>
            /\ Len(w) = 1
            /\ ins.pc = "done"
            /\ ins.result = "init read: " \o ins.fastEnd

\* The retry with MCP_INIT_TIMEOUT_SEC=5 ran out 11 s into the inspection.
C8_Witness ==
    /\ ins.pc = "done"
    /\ ins.fastEnd = "deadline exceeded"
    /\ ins.env = "5"
    /\ ins.waits = <<6, 5>>
    /\ ins.now = 11
    /\ ins.result = "init read: deadline exceeded"

\* The first wait ended with a read error and nothing was retried.
C8_WitnessOtherError ==
    /\ ins.pc = "done" /\ ins.fastEnd = "EOF" /\ ins.waits = <<6>>

\* C9: inspectStdio does not return, once the child was started, before it
\* has called Kill on the child.
C9_KilledBeforeReturn ==
    (ins.pc = "done" /\ ins.childUp) => ins.killed

\* The inspection returned because tools/list failed, the child killed.
C9_Witness ==
    /\ ins.pc = "done" /\ ins.childUp /\ ins.killed
    /\ ins.result = "tools/list failed"

\* C10: no response with the awaited id is consumed by readJSON without
\* being handed to the waiting read, whatever non-JSON lines surround it.
C10_AwaitedResponseDelivered ==
    "framing" \notin ins.lost

\* The tools/list requests the client has sent, in order.
ListRequests == SelectSeq(ins.sent, LAMBDA m : m.method = "tools/list")

\* C11: the requests for the first page carry the shapes {}, {cursor:""},
\* {cursor:null} and no params, in that order, each one after the first
\* sent only once the server answered the one before it with a JSON-RPC
\* error; the request for a later page carries the cursor, follows a
\* request answered without error and is the only request of its page.
C11_ShapeFallbackOrder ==
    LET L == ListRequests
    IN \A k \in 1..Len(L) :
         IF L[k].shape # "cursor"
         THEN /\ k <= Len(Shapes)
              /\ L[k].shape = Shapes[k]
              /\ k > 1 => (Len(ins.replies) >= k - 1 /\ ins.replies[k - 1])
         ELSE /\ k > 1
              /\ Len(ins.replies) >= k - 1 /\ ~ins.replies[k - 1]
              /\ L[k].id = L[k - 1].id + 1

(***************************************************************************)
(* Further claims about cmdUp.                                             *)
(***************************************************************************)
\* C12: once the report has printed the URLs of the stacks in runs, the
\* merged spec of each of them has been installed into its Front Proxy.
C12_SpecInstalledBeforeAdvertised ==
    pc = "waiting" => \A i \in 1..nCfg : IsRun(i) => proxy[i] = "spec"

\* C14: an instance whose gateway was not seen ready gets no Front Proxy
\* and no tunnel and is not among the started stacks.
C14_UnreadyInstanceSkipped ==
    \A i \in 1..nCfg :
        ~ready[i] => (proxy[i] = "none" /\ tunnelOf[i] = 0 /\ ~IsRun(i))

\* C15: no failure to start a gateway or a tunnel and no failed merge ends
\* the supervisor; it goes on with the remaining instances.
C15_NoErrorAbortsRun ==
    pc # "panic"

\* C16: when the cleanup sweep that a gateway's exit triggered has
\* returned, the Front Proxy of every started stack is shut down and no
\* gateway, MCP server or tunnel process of the run is alive.
C16_GatewayExitTearsDownRun ==
    (pc = "exited" /\ cause = "mcpo-exit") =>
        /\ \A i \in 1..nCfg : IsRun(i) => proxy[i] = "closed"
        /\ \A i \in 1..nCfg : ChildrenOf(i) \cap procAlive = {}

\* C17: at most one named-tunnel process is spawned in a run.
C17_AtMostOneNamedTunnel ==
    tunnelMode = "named" =>
        Cardinality({i \in 1..nCfg : tunnelOf[i] > 0}) <= 1

\* Two stacks in mode named went through the tunnel step: the first one
\* spawned the tunnel, the second one spawned nothing.
C17_Witness ==
    /\ tunnelMode = "named"
    /\ runs = <<1, 2>>
    /\ tunnelOf[1] > 0 /\ tunnelOf[2] = 0
    /\ TunnelPidOf(1) \in procAlive

(***************************************************************************)
(* Claims about the Front Proxy.                                           *)
(***************************************************************************)
\* C13: a response to GET /openapi.json written while no call of SetOpenAPI
\* has returned is a 503; one written after a call has returned is a 200
\* with Content-Type application/json whose body is the spec of the last
\* call that has returned.
C13_OpenAPIServesInstalledSpec ==
    \A r \in Requests :
        fp.req[r].pc \in {"written", "done"} =>
            /\ fp.req[r].installedAt = 0 =>
                   fp.req[r].resp.status = StatusServiceUnavailable
            /\ fp.req[r].installedAt > 0 =>
                   fp.req[r].resp = [status |-> StatusOK,
                                     ctype |-> "application/json",
                                     body |-> fp.req[r].installedAt]

\* One request was answered 503 before the first install and one was
\* answered with the second spec while SetOpenAPI had been called twice.
C13_Witness ==
    /\ fp.calls = 2 /\ fp.installed = 2
    /\ fp.req[1].pc = "done" /\ fp.req[1].resp.status = StatusServiceUnavailable
    /\ fp.req[2].pc = "done" /\ fp.req[2].resp.body = 2

(***************************************************************************)
(* Claims about the quick tunnel's readers.                                *)
(***************************************************************************)
\* C18: no reader of the quick tunnel is ever left blocked for good in the
\* send on urlCh, that is with the buffer full once startQuickTunnel has
\* returned and nobody receives any more.
C18_ReaderNeverStuckOnUrlCh ==
    \A s \in Streams :
        ~(qt.rd[s] = "send" /\ qt.ch >= UrlChCap /\ qt.sup # "select")

(***************************************************************************)
(* Claims about the preflight UI.                                          *)
(***************************************************************************)
\* C19: once the operator has cancelled the preflight UI (q or ctrl+c in
\* the list, menu, allow, deny, description or launch screen), Run returns a
\* nil overlay, and up prints the single line "Cancelled." and starts no
\* child process.
C19_CancelStopsUp ==
    (ui.useTUI /\ ui.pc \in {"ret", "launch", "started", "cancelled"}
        /\ ~ui.ret.err /\ ui.prog.overlay = "nil")
    => /\ ui.ret.overlay = "nil"
       /\ ui.pc \notin {"launch", "started"}
       /\ ui.pc = "cancelled" => ui.printed = <<"Cancelled.">>

\* C20: every (instance, server) pair of the configs is in the server list
\* of the preflight UI, also a server whose inspection failed or found no
\* tools, and a failed server carries the ERR badge and its error text.
C20_EveryPairListed ==
    ui.pc = "tui" =>
        \A p \in Pairs :
            /\ p \in ui.prog.names
            /\ ui.outcome[p] = "err" =>
                  /\ listBadge(ui.prog, p) = "ERR"
                  /\ menuError(ui.prog, p)
                        \notin {"", "No error details available"}

\* C21: when the preflight UI was seeded with a persisted overlay and the
\* operator confirmed the launch (enter in the launch screen, no edit made),
\* the overlay then on disk equals the one that was loaded: disabled flags,
\* allow sets, deny sets, description overrides and lastLaunch.
C21_AcceptKeepsPersistedOverlay ==
    (ui.useTUI /\ ui.pc \in {"launch", "started"} /\ ~ui.ret.err
        /\ ~ui.seed.isNil /\ ui.prog.overlay # "nil")
    => ui.disk = ui.loaded

(***************************************************************************)
(* Claims about translateOverlay and cloneConfigApplyOverlay.              *)
(***************************************************************************)
\* The sections of an overlay that are keyed by server.
OverlaySections == {"Disabled", "Allow", "Deny", "Descriptions"}

\* key is "<instance>/<server>" for an instance of insts.
KeyOfKnownInstance(key, insts) ==
    \E i \in Names(insts), sv \in Strings(MaxKeyLen) : key = i \o <<"/">> \o sv

\* C22: translateOverlay files every composite entry under the text before
\* its first "/" and the text after it, and the nested overlay it returns
\* holds nothing for an instance that is not an instance of the run.
C22_UnknownInstancesDiscarded ==
    (tr.op = "translate" /\ tr.pc = "done") =>
        \A sec \in OverlaySections :
            /\ \A k \in DOMAIN tr.in[sec] :
                 (KeyOfKnownInstance(k, tr.instances)
                    /\ (sec = "Disabled" => tr.in[sec][k])) =>
                 LET i == split(k).inst
                     sv == split(k).srv
                 IN /\ "/" \notin {i[j] : j \in 1..Len(i)}
                    /\ i \in DOMAIN tr.nested[sec]
                    /\ sv \in DOMAIN tr.nested[sec][i]
                    /\ tr.nested[sec][i][sv] = tr.in[sec][k]
            /\ \A i \in DOMAIN tr.nested[sec] : i \in Names(tr.instances)

\* Reversing the join: the composite entries of one section of a nested
\* overlay.
rejoin(nestedSec) ==
    UNION {{<<i \o <<"/">> \o sv, nestedSec[i][sv]>> :
                sv \in DOMAIN nestedSec[i]} : i \in DOMAIN nestedSec}

\* The entries of one section of a composite overlay whose instance is an
\* instance of the run; for Disabled, the servers that are disabled.
knownEntries(sec, in, insts) ==
    {<<k, in[sec][k]>> :
        k \in {c \in DOMAIN in[sec] :
                  /\ KeyOfKnownInstance(c, insts)
                  /\ sec = "Disabled" => in[sec][c]}}

\* C23: translating a composite overlay and re-joining every (instance,
\* server) pair of the nested overlay gives the entries of the input whose
\* instance is known: the same disabled servers, allow sets, deny sets and
\* description overrides.
C23_RoundTripRestrictsToKnown ==
    (tr.op = "translate" /\ tr.pc = "done") =>
        \A sec \in OverlaySections :
            rejoin(tr.nested[sec]) = knownEntries(sec, tr.in, tr.instances)

\* C24: the clone that is written has the mcpServers entries of the source
\* except those disabled for the instance, each with the content it had, and
\* every other top-level key with the content it had; allow, deny and
\* description overrides make no difference.
C24_CloneOnlyDropsDisabled ==
    (tr.op = "clone" /\ tr.pc = "done" /\ ~tr.err) =>
        LET dis == IF ~tr.ov.isNil /\ tr.instName \in DOMAIN tr.ov.Disabled
                   THEN {s \in DOMAIN tr.ov.Disabled[tr.instName] :
                             tr.ov.Disabled[tr.instName][s]}
                   ELSE {}
        IN /\ DOMAIN tr.out.servers = DOMAIN tr.file.servers \ dis
           /\ \A s \in DOMAIN tr.out.servers :
                 tr.out.servers[s] = tr.file.servers[s]
           /\ tr.out.other = tr.file.other

(***************************************************************************)
(* Claims about the passes of mergeOpenAPI.                                *)
(***************************************************************************)
\* C25: every operationId of a merged document starts with "<server>__" for
\* the server that contributed the operation, and no two operations of the
\* document have the same operationId.
C25_OperationIdsPrefixedAndUnique ==
    (dc.pass = "merge" /\ dc.pc # "call") =>
        /\ \A p \in DOMAIN dc.out1 :
              LET item == dc.out1[p]
                  pre == item.server \o Underscores
              IN /\ Len(item.operationId) >= Len(pre)
                 /\ SubSeq(item.operationId, 1, Len(pre)) = pre
        /\ \A p, q \in DOMAIN dc.out1 :
              p # q => dc.out1[p].operationId # dc.out1[q].operationId

\* C26: in a merged document every $ref into one of the four managed
\* sections whose target was local to the document it came from reads
\* "#/components/<section>/<server>__<name>" and that key is in the merged
\* section, and the audit reports only refs to names that were local to no
\* contributing document.
C26_LocalRefsResolve ==
    (dc.pass = "refs" /\ dc.pc = "done") =>
        /\ \A x \in dc.mergedRefs :
              (x.from.section = "schemas"
                  /\ x.from.tail[1] \in {<<k>> : k \in dc.comps[x.server]}) =>
                 /\ x.ref.tail[1] = namespaced(x.server, x.from.tail[1])
                 /\ x.ref.tail[1] \in dc.mergedKeys
                 /\ x.ref \notin dc.warns
        /\ \A r \in dc.warns :
              \A s \in RefServers : r.tail[1] \notin {<<k>> : k \in dc.comps[s]}

\* An anyOf list somewhere in the schema holds an empty object.
RECURSIVE HasEmptyInAnyOf(_)
HasEmptyInAnyOf(n) ==
    CASE n.t = "obj" ->
            \/ /\ "anyOf" \in DOMAIN n.v /\ n.v["anyOf"].t = "arr"
               /\ \E j \in 1..Len(n.v["anyOf"].v) :
                     IsEmptyObj(n.v["anyOf"].v[j])
            \/ \E k \in DOMAIN n.v : HasEmptyInAnyOf(n.v[k])
      [] n.t = "arr" -> \E j \in 1..Len(n.v) : HasEmptyInAnyOf(n.v[j])
      [] OTHER -> FALSE

\* C27: after tightenResponses a response has a description, a media type
\* that is left has no empty schema {}, and no anyOf list anywhere in its
\* schema holds an empty {} entry.
C27_ResponsesTightened ==
    (dc.pass = "tighten" /\ dc.pc = "done") =>
        /\ dc.outDesc
        /\ dc.outContent =>
              /\ ~IsEmptyObj(dc.outSchema)
              /\ ~HasEmptyInAnyOf(dc.outSchema)

\* x is a whole number.
IsWhole(x) == x.t = "num" /\ x.v % 2 = 0

\* The condition of the claim on a schema object: an integral default, a
\* non-empty enum of integral entries, or an integral multipleOf.
IntegerLike(f) ==
    \/ "default" \in DOMAIN f /\ IsWhole(f["default"])
    \/ /\ "enum" \in DOMAIN f
       /\ f["enum"].v # <<>>
       /\ \A j \in DOMAIN f["enum"].v : IsWhole(f["enum"].v[j])
    \/ "multipleOf" \in DOMAIN f /\ IsWhole(f["multipleOf"])

\* C28: coerceIntegerTypes turns the type "number" of a schema into
\* "integer" exactly when the schema has an integral default, a non-empty
\* enum of integral entries or an integral multipleOf; any other schema
\* keeps its type, and nothing but type changes anywhere in the document.
C28_CoerceExactlyIntegerLike ==
    (dc.pass = "coerce" /\ dc.pc = "done") =>
        LET in == dc.schema.v
            expected ==
                IF "type" \in DOMAIN in /\ in["type"] = Str("number")
                   /\ IntegerLike(in)
                THEN Obj([in EXCEPT !["type"] = Str("integer")])
                ELSE dc.schema
        IN dc.out = wrap(dc.wrapper, expected)

\* C28 witness: a schema of type "number" under properties, with an enum
\* and neither default nor multipleOf, came out with type "integer".
C28_Witness ==
    /\ dc.pass = "coerce" /\ dc.pc = "done" /\ dc.wrapper = "property"
    /\ DOMAIN dc.schema.v = {"type", "enum"}
    /\ dc.schema.v["type"] = Str("number")
    /\ unwrap(dc.wrapper, dc.out).v["type"] = Str("integer")

\* C29: two calls of mergeOpenAPI on the same per-server documents with the
\* same overlay return the same merged document.
C29_MergeDeterministic ==
    (dc.pass = "merge" /\ dc.pc = "twice") => dc.out1 = dc.out2

\* C30: an operation whose final description, after a non-empty override,
\* is exactly 300 graphemes long gets no length warning, and one whose final
\* description is 301 graphemes long gets exactly one.
C30_WarnPast300Graphemes ==
    (dc.pass = "warn" /\ dc.pc = "done" /\ dc.hasOverride
        /\ dc.override # EmptyDesc) =>
        /\ dc.final.graphemes = descLimit => dc.warnings = 0
        /\ dc.final.graphemes = descLimit + 1 => dc.warnings = 1

\* C30 as the code has it: the length is counted in runes (code points). A
\* final description of exactly 300 runes gets no length warning, one of
\* 301 runes gets exactly one.
C30_WarnPast300Runes ==
    (dc.pass = "warn" /\ dc.pc = "done" /\ dc.hasOverride
        /\ dc.override # EmptyDesc) =>
        /\ dc.final = dc.override
        /\ dc.final.runes = descLimit => dc.warnings = 0
        /\ dc.final.runes = descLimit + 1 => dc.warnings = 1

\* C30 witness: an override of 300 graphemes and 301 runes replaced a
\* description and was warned about.
C30_Witness ==
    /\ dc.pass = "warn" /\ dc.pc = "done" /\ dc.hasOrig /\ dc.hasOverride
    /\ dc.override = Desc(descLimit, descLimit + 1)
    /\ dc.final = dc.override /\ dc.warnings = 1

(***************************************************************************)
(* Further claims about the inspector and the integer coercion.            *)
(***************************************************************************)
\* C34: no stdout line is lost to a reader goroutine left over from a read
\* that timed out: a line that arrives after a per-read deadline has fired
\* is still delivered to the next read on the stream.
C34_NoLineLostToLeakedReader ==
    "leak" \notin ins.lost

\* C39: within one inspection session every request carries an id that no
\* earlier request of the session carried (a notification has no id).
C39_RequestIdsFresh ==
    \A j, k \in 1..Len(ins.sent) :
        (j < k /\ ins.sent[j].id # -1 /\ ins.sent[k].id # -1) =>
            ins.sent[j].id # ins.sent[k].id

\* C40: a schema whose type became "integer" by coercion has an integral
\* default, if it has a default, and only integral enum entries, if it has
\* an enum.
C40_CoercedSchemaIntegral ==
    (/\ dc.pass = "coerce" /\ dc.pc = "done"
     /\ "type" \in DOMAIN dc.schema.v
     /\ dc.schema.v["type"] = Str("number")
     /\ unwrap(dc.wrapper, dc.out).v["type"] = Str("integer")) =>
        LET f == dc.schema.v
        IN /\ "default" \in DOMAIN f => IsWhole(f["default"])
           /\ "enum" \in DOMAIN f =>
                 \A j \in DOMAIN f["enum"].v : IsWhole(f["enum"].v[j])

\* C35: a SIGINT or SIGTERM delivered once the first child has been
\* spawned, also while a later stack still waits for its gateway or for a
\* quick-tunnel URL, leads to the cleanup sweep: when the supervisor has
\* ended on a signal no gateway it started is running.
C35_SignalAlwaysSweepsGateways ==
    (cause = "signal" /\ pc \in {"exited", "terminated"}) =>
        \A i \in 1..nCfg : McpoPidOf(i) \notin procAlive

\* C36: distinct config paths given to one run yield distinct instance
\* names, and every gateway is started with the clone of its own
\* instance's config, also when two config files share a base name.
C36_DistinctPathsDistinctNames ==
    (/\ tr.op = "plan" /\ tr.pc = "done"
     /\ \A j, k \in 1..Len(tr.configs) :
           j # k => tr.configs[j] # tr.configs[k]) =>
        /\ \A j, k \in 1..Len(tr.configs) :
               j # k => tr.names[j] # tr.names[k]
        /\ \A j \in 1..Len(tr.configs) : tr.tmp[tr.configPath[j]] = j

\* C38: every call of InspectServer returns, and returns no later than the
\* 15 seconds of the caller's context, whatever the server does: write
\* nothing, write lines that answer nothing second after second, or offer a
\* nextCursor on every page.
C38_ReturnsByDeadline == <>(ins.pc = "done" /\ ins.now <= OuterDeadline)

\* The call returned at the caller's deadline from the tools/list loop, after
\* the server had offered a further page more often than MaxPages times.
C38_Witness ==
    /\ ins.pc = "done"
    /\ ins.now = OuterDeadline
    /\ ins.result = "tools/list read: deadline exceeded"
    /\ ins.nextID > FirstListID + MaxPages

(***************************************************************************)
(* Further claims about the preflight UI.                                  *)
(***************************************************************************)
\* C31: the launch mode Run returns reflects the controller chosen with the
\* g key: "raw" when the confirmed model has the controller toggled to raw
\* (an odd number of g presses in the server list), "mcpo" otherwise.
C31_LaunchModeFollowsController ==
    (ui.pc = "ret" /\ ~ui.ret.err /\ ui.prog.mode = "launch") =>
        ui.ret.mode = (IF ui.prog.controller = "raw" THEN "raw" ELSE "mcpo")

\* C37: opening the allow editor or the deny editor of a server and
\* confirming with Enter without toggling a tool leaves the allow-set and
\* the deny-set of that server as they were when the editor was opened.
C37_ConfirmWithoutToggleKeepsSets ==
    (ed.op = "select" /\ ed.confirmed /\ ~ed.toggled) =>
        (ed.allow = ed.opened.allow /\ ed.deny = ed.opened.deny)

(***************************************************************************)
(* Claims about the scroll state and the tags.                             *)
(***************************************************************************)
\* C32: after any sequence of ScrollLeft and ScrollRight calls no offset is
\* negative, and a ScrollRight followed at once by a ScrollLeft with the
\* same fast and column arguments gives back the offsets it started from.
C32_ScrollNonNegativeAndRestores ==
    ed.op = "scroll" =>
        /\ \A j \in 1..Len(ed.offs) :
               ed.offs[j].ScrollHLeft >= 0 /\ ed.offs[j].ScrollHRight >= 0
        /\ \A j \in 1..(Len(ed.ops) - 1) :
               (/\ ed.ops[j].op = "right"
                /\ ed.ops[j + 1] = [ed.ops[j] EXCEPT !.op = "left"]) =>
                   ed.offs[j + 2] = ed.offs[j]

\* C32 witness: a slow ScrollLeft on an offset of 0, then a fast
\* ScrollRight and a fast ScrollLeft on the same column.
C32_Witness ==
    /\ ed.op = "scroll" /\ Len(ed.ops) = 3
    /\ ed.ops[1] = ScrollOp("left", FALSE, TRUE)
    /\ ed.ops[2] = ScrollOp("right", TRUE, TRUE)
    /\ ed.ops[3] = ScrollOp("left", TRUE, TRUE)
    /\ ed.offs[3] = Offsets(8, 0)
    /\ ed.offs[4] = Offsets(0, 0)

\* The kinds of the tags ComputeTags returned.
TagKinds == {ed.tags[j].Kind : j \in 1..Len(ed.tags)}

\* C33: for every raw text, modified text, limit and edited flag the tags
\* ComputeTags returns never hold both TRIMMED and TRUNCATED.
C33_TrimmedTruncatedExclusive ==
    (ed.op = "tags" /\ ed.pc = "done") =>
        ~("TRIMMED" \in TagKinds /\ "TRUNCATED" \in TagKinds)

\* C33 witness: the modified text is the hard cut of the raw text, which
\* is also its word-safe trim, and is tagged TRUNCATED only.
C33_Witness ==
    /\ ed.op = "tags" /\ ed.pc = "done"
    /\ Len(ed.raw) > Len(ed.modified)
    /\ ed.modified = hardTruncate(ed.raw, ed.limit)
    /\ ed.modified = wordSafeTrim(ed.raw, ed.limit)
    /\ "TRUNCATED" \in TagKinds /\ "TRIMMED" \notin TagKinds

====
